---- MODULE Spec2Model ----
(***************************************************************************)
(* Task lifecycle and billing core of the court-order scoring service:     *)
(* the ledger (storage/repository.py), the submission handler              *)
(* (app/src/routers/predict.py), the publisher (app/src/rabbitmq_client.py)*)
(* and the queue worker (app/src/ml_worker.py).                            *)
(*                                                                         *)
(* Amounts are whole credits.  Feature values are in hundredths, scores in *)
(* ten-thousandths.  A database session is modelled by what it holds: the  *)
(* row values it loaded (a snapshot) and the values it will write at       *)
(* commit; a commit writes the values the handler assigned, not a delta.   *)
(* Database reads are modelled as succeeding; commits, the scorer and the  *)
(* broker can fail, and processes can crash.                               *)
(***************************************************************************)
EXTENDS Integers, Sequences, FiniteSets, TLC

\* ------------------------------------------------------------------ bounds
NumUsers == 2
NumReqs == 2
NumWorkers == 2
MaxFaults == 1
\* the payments ratios given to the scorer are the multiples of 1/RatioSteps
RatioSteps == 4

Users == 1..NumUsers
Reqs == 1..NumReqs
Workers == 1..NumWorkers

\* ------------------------------------------------------- program constants
\* price_credits of court_order_suitability_v1
PriceCredits == 5
\* id of the catalog row of court_order_suitability_v1
ModelId == 1

\* balance of a user that has no billing_accounts row
NoAccount == -1
\* what an account other than the first starts with
InitBalances == {NoAccount, 3}
\* amounts the ledger functions are called with
Amounts == {-5, 0, 5}

\* ---------------------------------------------------------------- payloads
\* A JSON value: its Python type and, for numbers, its value in hundredths.
\* "missing" stands for a key that is not in the dictionary, "nan" for the
\* float NaN.
Val(t, v) == [t |-> t, v |-> v]
Missing == Val("missing", 0)

Fields == {"total_debt", "penalty_amount", "days_overdue", "payments_ratio", "is_physical_person"}

\* the payload of the API test: 50000 / 5000 / 120 / 0.3 / true
GoodPayload ==
  [total_debt |-> Val("float", 5000000), penalty_amount |-> Val("float", 500000),
   days_overdue |-> Val("int", 12000), payments_ratio |-> Val("float", 30),
   is_physical_person |-> Val("bool", 100)]
\* the same with a ratio typed in as "nan" (passes `ratio < 0 or ratio > 1`)
NanRatioPayload == [GoodPayload EXCEPT !.payments_ratio = Val("nan", 0)]
NoPayload == [f \in Fields |-> Missing]
\* a JSON null in place of the dictionary
NullPayload == [t |-> "null"]

\* The state holds payloads by name; Payload(n) is the dictionary named n.
Payload(n) ==
  CASE n = "good" -> GoodPayload
    [] n = "nan_ratio" -> NanRatioPayload
    [] OTHER -> NoPayload

\* payloads a submission can store
SubmitPayloads == {"good", "nan_ratio"}

\* isinstance(x, (int, float)): bool is a subclass of int
IsNumber(x) == x.t \in {"int", "float", "nan", "bool"}
\* isinstance(x, int)
IsInt(x) == x.t \in {"int", "bool"}
\* Python comparisons; every comparison with NaN is false
Le(x, n) == x.t # "nan" /\ x.v <= n
Lt(x, n) == x.t # "nan" /\ x.v < n
Ge(x, n) == x.t # "nan" /\ x.v >= n
Gt(x, n) == x.t # "nan" /\ x.v > n

\* the order in which validate_input_data looks for the required keys
required_fields ==
  <<"total_debt", "penalty_amount", "days_overdue", "payments_ratio", "is_physical_person">>

\* validate_input_data: "" when valid, else what the message names: the first
\* key that is absent, or the field whose rule is violated, or the exception
\* that the `in` test raises on None and the except branch turns into a message
validate_input_data(d) ==
  IF d = NullPayload THEN "exception"
  ELSE IF \E f \in Fields : d[f] = Missing
    THEN LET i == CHOOSE k \in 1..Len(required_fields) :
                    /\ d[required_fields[k]] = Missing
                    /\ \A j \in 1..(k - 1) : d[required_fields[j]] # Missing
         IN "missing:" \o required_fields[i]
  ELSE IF ~IsNumber(d.total_debt) \/ Le(d.total_debt, 0) THEN "total_debt"
  ELSE IF ~IsNumber(d.penalty_amount) \/ Lt(d.penalty_amount, 0) THEN "penalty_amount"
  ELSE IF ~IsInt(d.days_overdue) \/ Lt(d.days_overdue, 0) THEN "days_overdue"
  ELSE IF ~IsNumber(d.payments_ratio) \/ ~(Ge(d.payments_ratio, 0) /\ Le(d.payments_ratio, 100))
    THEN "payments_ratio"
  ELSE IF d.is_physical_person.t # "bool" THEN "is_physical_person"
  ELSE ""

\* PredictionRequest(**input_data): the pydantic field constraints
PredictionRequestOk(d) ==
  /\ IsNumber(d.total_debt) /\ Gt(d.total_debt, 0)
  /\ IsNumber(d.penalty_amount) /\ Ge(d.penalty_amount, 0)
  /\ IsInt(d.days_overdue) /\ Ge(d.days_overdue, 0)
  /\ IsNumber(d.payments_ratio) /\ Ge(d.payments_ratio, 0) /\ Le(d.payments_ratio, 100)
  /\ d.is_physical_person.t = "bool"

Max(a, b) == IF a >= b THEN a ELSE b
Min(a, b) == IF a <= b THEN a ELSE b

\* a scorer that adds the overdue bonus from 90 days on
calculate_prediction_from_90_days(d) ==
  LET s0 == 5000
      s1 == IF Gt(d.total_debt, 0) /\ Le(d.total_debt, 10000000) THEN s0 + 2000
            ELSE IF Gt(d.total_debt, 10000000) THEN s0 - 1000 ELSE s0
      s2 == IF Ge(d.days_overdue, 9000) THEN s1 + 1000 ELSE s1
      s3 == IF d.is_physical_person.v # 0 THEN s2 + 500 ELSE s2
      s4 == s3 - d.payments_ratio.v * 20
  IN Max(0, Min(10000, s4))

\* calculate_prediction, in ten-thousandths
calculate_prediction(d) ==
  LET s0 == 5000
      s1 == IF Gt(d.total_debt, 0) /\ Le(d.total_debt, 10000000) THEN s0 + 2000
            ELSE IF Gt(d.total_debt, 10000000) THEN s0 - 1000 ELSE s0
      s2 == IF Gt(d.days_overdue, 9000) THEN s1 + 1000 ELSE s1
      s3 == IF d.is_physical_person.v # 0 THEN s2 + 500 ELSE s2
      s4 == s3 - d.payments_ratio.v * 20
  IN Max(0, Min(10000, s4))

\* calculate_prediction of main.py (the synchronous endpoint's own copy), in
\* ten-thousandths
calculate_prediction_main(d) ==
  LET s0 == 5000
      s1 == IF Gt(d.total_debt, 0) /\ Le(d.total_debt, 10000000) THEN s0 + 2000
            ELSE IF Gt(d.total_debt, 10000000) THEN s0 - 1000 ELSE s0
      s2 == IF Gt(d.days_overdue, 9000) THEN s1 + 1000 ELSE s1
      s3 == IF d.is_physical_person.v # 0 THEN s2 + 500 ELSE s2
      s4 == s3 - d.payments_ratio.v * 20
  IN Max(0, Min(10000, s4))

\* ------------------------------------------------------------------- state
VARIABLES
  catalog,      \* TRUE when ml_models holds court_order_suitability_v1
  initial,      \* the balances at start (never changes)
  balance,      \* billing_accounts.balance per user, NoAccount when no row
  txs,          \* transactions (a set: each row names the call that wrote it)
  tasks,        \* ml_tasks by task id; a task's id is the number of its request
  predictions,  \* predictions (a set: each row names its task and its ordinal)
  queue,        \* messages ready in ml_tasks queue
  unacked,      \* per consumer: the delivered, unacknowledged message
  publisher,    \* the API process's publisher channel: unset, open or lost
  reqs,         \* the API/bot requests and direct ledger calls
  wk,           \* the workers
  faults,       \* crashes, lost connections and raised errors so far
  answer,       \* the status request that returned in the last step, if any
  call,         \* a direct call of a pure function: its argument and its result
  main,         \* a worker process's main(): its place in the connection loop
  domain_model  \* the objects of domain_model.py: a user and a top-up request

vars == <<catalog, initial, balance, txs, tasks, predictions, queue, unacked,
          publisher, reqs, wk, faults, answer, call, main, domain_model>>

NoMsg == [task_id |-> 0, user_id |-> 0, model_id |-> 0, input_data |-> "none"]

\* no direct call of a function is under way
NoCall == [fn |-> "none"]

\* the connection loop of a worker process is not followed
NoMain == [pc |-> "none"]

\* no object of the domain model exists
NoDomain == [balance |-> 0]

\* no status request returned in the last step
NoAnswer == [caller |-> 0, task_id |-> 0, resp |-> [code |-> 0]]

IdleReq == [pc |-> "idle", kind |-> "none", user |-> 0, amount |-> 0,
            payload |-> "none", snap |-> NoAccount, outcome |-> "none"]
\* seen: the committed status of the referenced task when the message was
\* delivered ("none" for no row); path: the return point of process_ml_task
\* and, inside its except branch, what raised: the scorer or a commit
IdleWorker == [pc |-> "idle", msg |-> NoMsg, conn |-> TRUE, seen |-> "none", path |-> "none"]

Init ==
  /\ catalog \in BOOLEAN
  /\ initial \in {f \in [Users -> InitBalances \cup {PriceCredits}] : f[1] = PriceCredits}
  /\ balance = initial
  /\ txs = {}
  /\ tasks = <<>>
  /\ predictions = {}
  /\ queue = {}
  /\ unacked = [w \in Workers |-> NoMsg]
  /\ publisher = "unset"
  /\ reqs = [r \in Reqs |-> IdleReq]
  /\ wk = [w \in Workers |-> IdleWorker]
  /\ faults = 0
  /\ answer = NoAnswer
  /\ call = NoCall
  /\ main = NoMain
  /\ domain_model = NoDomain

Terminal == {"completed", "failed"}
TaskIds == DOMAIN tasks

\* ------------------------------------------------------------------ ledger
\* a transactions row; req is the call that wrote it
Tx(u, a, ty, r) ==
  [account |-> u, amount |-> a, type |-> ty, req |-> r,
   description |-> IF reqs[r].kind = "submit" THEN "ml_task"
                   ELSE IF reqs[r].kind = "sync" THEN "ml_prediction" ELSE "none"]

\* the handler returns or raises: its session and locals are gone
Finish(q, o) == [q EXCEPT !.pc = "done", !.outcome = o, !.snap = NoAccount,
                          !.payload = "none", !.amount = 0]

\* requests are numbered in the order they arrive
Arrives(r) == reqs[r].pc = "idle" /\ (IF r = 1 THEN TRUE ELSE reqs[r - 1].pc # "idle")

\* A crash, a lost connection or a first raised error is taken from the fault
\* budget.  A handler that runs because of such an error (the worker's except
\* branch, the submission's except branch) may fail too, within the same
\* outage.
Fault == faults < MaxFaults /\ faults' = faults + 1
NoFault == UNCHANGED faults

\* deposit_credits that rejects only negative amounts
deposit_credits_accepts_zero(r, u, a) ==
  /\ Arrives(r)
  /\ LET q == [reqs[r] EXCEPT !.kind = "deposit", !.user = u, !.amount = a]
     IN reqs' = [reqs EXCEPT ![r] =
          IF a < 0 THEN Finish(q, "invalid_amount")
          ELSE IF balance[u] = NoAccount THEN Finish(q, "no_account")
          ELSE [q EXCEPT !.pc = "deposit_commit", !.snap = balance[u]]]
  /\ UNCHANGED <<main, domain_model, call, answer, catalog, initial, balance, txs, tasks, predictions, queue, unacked,
                 publisher, wk, faults>>

\* deposit_credits up to db.add(tx): amount check, account query, new balance
deposit_credits(r, u, a) ==
  /\ Arrives(r)
  /\ LET q == [reqs[r] EXCEPT !.kind = "deposit", !.user = u, !.amount = a]
     IN reqs' = [reqs EXCEPT ![r] =
          IF a <= 0 THEN Finish(q, "invalid_amount")
          ELSE IF balance[u] = NoAccount THEN Finish(q, "no_account")
          ELSE [q EXCEPT !.pc = "deposit_commit", !.snap = balance[u]]]
  /\ UNCHANGED <<main, domain_model, call, answer, catalog, initial, balance, txs, tasks, predictions, queue, unacked,
                 publisher, wk, faults>>

\* a deposit commit that adds the amount to the account's earlier deposit
\* row when there is one, instead of inserting a row
deposit_commit_merges_rows(r) ==
  /\ reqs[r].pc = "deposit_commit"
  /\ LET q == reqs[r]
         old == {x \in txs : x.account = q.user /\ x.type = "deposit"}
     IN /\ balance' = [balance EXCEPT ![q.user] = q.snap + q.amount]
        /\ txs' = IF old = {} THEN txs \cup {Tx(q.user, q.amount, "deposit", r)}
                  ELSE LET x == CHOOSE y \in old : TRUE
                       IN (txs \ {x}) \cup {[x EXCEPT !.amount = @ + q.amount]}
        /\ reqs' = [reqs EXCEPT ![r] = Finish(q, "ok")]
        /\ NoFault
  /\ UNCHANGED <<main, domain_model, call, answer, catalog, initial, tasks, predictions, queue, unacked, publisher, wk>>

\* deposit_credits: db.commit() writes the balance and the transaction
deposit_commit(r) ==
  /\ reqs[r].pc = "deposit_commit"
  /\ LET q == reqs[r] IN
        /\ balance' = [balance EXCEPT ![q.user] = q.snap + q.amount]
        /\ txs' = txs \cup {Tx(q.user, q.amount, "deposit", r)}
        /\ reqs' = [reqs EXCEPT ![r] = Finish(q, "ok")]
        /\ NoFault
  /\ UNCHANGED <<main, domain_model, call, answer, catalog, initial, tasks, predictions, queue, unacked, publisher, wk>>

\* the balance withdraw_credits sees: the session returns the account object
\* it already holds (loaded by the submission handler's own query), and
\* loads the row only when it holds none
LoadedBalance(q) == IF q.kind \in {"submit", "sync"} THEN q.snap ELSE balance[q.user]

\* withdraw_credits without the `balance < amount` check
withdraw_checks_unchecked(q) ==
  LET s == LoadedBalance(q) IN
  IF q.amount <= 0 THEN Finish(q, "invalid_amount")
  ELSE IF s = NoAccount THEN Finish(q, "no_account")
  ELSE [q EXCEPT !.pc = "withdraw_commit", !.snap = s]

\* withdraw_credits up to db.add(tx), for request record q
withdraw_checks(q) ==
  LET s == LoadedBalance(q) IN
  IF q.amount <= 0 THEN Finish(q, "invalid_amount")
  ELSE IF s = NoAccount THEN Finish(q, "no_account")
  ELSE IF s < q.amount THEN Finish(q, "insufficient_funds")
  ELSE [q EXCEPT !.pc = "withdraw_commit", !.snap = s]

\* withdraw_credits that also refuses a withdrawal of the whole balance
withdraw_credits_keeps_one(r, u, a) ==
  /\ Arrives(r)
  /\ LET q == [reqs[r] EXCEPT !.kind = "withdraw", !.user = u, !.amount = a] IN
       reqs' = [reqs EXCEPT ![r] =
         IF a > 0 /\ balance[u] # NoAccount /\ balance[u] <= a
           THEN Finish(q, "insufficient_funds")
         ELSE withdraw_checks(q)]
  /\ UNCHANGED <<main, domain_model, call, answer, catalog, initial, balance, txs, tasks, predictions, queue, unacked,
                 publisher, wk, faults>>

\* a direct call of withdraw_credits
withdraw_credits(r, u, a) ==
  /\ Arrives(r)
  /\ reqs' = [reqs EXCEPT ![r] =
        withdraw_checks([reqs[r] EXCEPT !.kind = "withdraw", !.user = u, !.amount = a])]
  /\ UNCHANGED <<main, domain_model, call, answer, catalog, initial, balance, txs, tasks, predictions, queue, unacked,
                 publisher, wk, faults>>

\* withdraw_credits: db.commit() writes the balance and the transaction
withdraw_commit(r) ==
  /\ reqs[r].pc = "withdraw_commit"
  /\ LET q == reqs[r] IN
        /\ balance' = [balance EXCEPT ![q.user] = q.snap - q.amount]
        /\ txs' = txs \cup {Tx(q.user, 0 - q.amount, "withdraw", r)}
        /\ reqs' = [reqs EXCEPT ![r] =
              IF q.kind = "submit" THEN [q EXCEPT !.pc = "add_task"] ELSE Finish(q, "ok")]
        /\ NoFault
  /\ UNCHANGED <<main, domain_model, call, answer, catalog, initial, tasks, predictions, queue, unacked, publisher, wk>>

\* -------------------------------------------------------------- submission
\* the check of predict without its balance comparison
InsufficientBalance_no_compare(b) == b = NoAccount

\* predict: `not account or float(account.balance) < model.price_credits`
InsufficientBalance(b) == b = NoAccount \/ b < PriceCredits

\* a submission handler that does not look at the result of the catalog query
predict_no_catalog_check(r, u, p) ==
  /\ Arrives(r)
  /\ LET q == [reqs[r] EXCEPT !.kind = "submit", !.user = u, !.payload = p,
                              !.amount = PriceCredits]
         b == balance[u]
         d == withdraw_checks([q EXCEPT !.snap = b])
     IN reqs' = [reqs EXCEPT ![r] =
          IF InsufficientBalance(b) THEN Finish(q, "payment_required")
          ELSE IF d.pc = "done" THEN [d EXCEPT !.outcome = "bad_request"]
          ELSE d]
  /\ UNCHANGED <<main, domain_model, call, answer, catalog, initial, balance, txs, tasks, predictions, queue, unacked,
                 publisher, wk, faults>>

\* predict up to the commit inside withdraw_credits: the catalog lookup, the
\* account query, the balance check and the call of withdraw_credits, whose
\* ValueError becomes a 400
predict(r, u, p) ==
  /\ Arrives(r)
  /\ LET q == [reqs[r] EXCEPT !.kind = "submit", !.user = u, !.payload = p,
                              !.amount = PriceCredits]
         b == balance[u]
         d == withdraw_checks([q EXCEPT !.snap = b])
     IN reqs' = [reqs EXCEPT ![r] =
          IF ~catalog THEN Finish(q, "model_not_found")
          ELSE IF InsufficientBalance(b) THEN Finish(q, "payment_required")
          ELSE IF d.pc = "done" THEN [d EXCEPT !.outcome = "bad_request"]
          ELSE d]
  /\ UNCHANGED <<main, domain_model, call, answer, catalog, initial, balance, txs, tasks, predictions, queue, unacked,
                 publisher, wk, faults>>

NewTask(q, r) ==
  [user_id |-> q.user, model_id |-> ModelId, status |-> "pending", input_data |-> q.payload,
   prediction |-> -1, error_message |-> "", started_at |-> FALSE, completed_at |-> FALSE,
   credits_charged |-> PriceCredits, req |-> r]

\* predict: db.add(task); db.commit()
predict_add_task(r) ==
  /\ reqs[r].pc = "add_task"
  /\ LET q == reqs[r] IN
        /\ tasks' = (r :> NewTask(q, r)) @@ tasks
        /\ reqs' = [reqs EXCEPT ![r] = [q EXCEPT !.pc = "publish"]]
        /\ NoFault
  /\ UNCHANGED <<main, domain_model, call, answer, catalog, initial, balance, txs, predictions, queue, unacked, publisher, wk>>

\* a message that carries the user's id where the task's id belongs
Message_user_as_task(q, r) == [task_id |-> q.user, user_id |-> q.user, model_id |-> ModelId,
                               input_data |-> tasks[r].input_data]

\* publish_task: the message built from the task id and task_data
Message(q, r) == [task_id |-> r, user_id |-> q.user, model_id |-> ModelId,
                  input_data |-> tasks[r].input_data]

\* predict: get_publisher().publish_task(...); connect() runs only while the
\* channel is unset
predict_publish(r) ==
  /\ reqs[r].pc = "publish"
  /\ LET q == reqs[r] IN
     \/ /\ publisher \in {"unset", "open"}
        /\ publisher' = "open"
        /\ queue' = queue \cup {Message(q, r)}
        /\ reqs' = [reqs EXCEPT ![r] = Finish(q, "ok")]
        /\ NoFault
     \/ /\ publisher = "unset"
        /\ Fault
        /\ reqs' = [reqs EXCEPT ![r] = [q EXCEPT !.pc = "mark_failed"]]
        /\ UNCHANGED <<publisher, queue>>
     \/ /\ publisher = "lost"
        /\ reqs' = [reqs EXCEPT ![r] = [q EXCEPT !.pc = "mark_failed"]]
        /\ UNCHANGED <<publisher, queue>>
        /\ NoFault
  /\ UNCHANGED <<main, domain_model, call, answer, catalog, initial, balance, txs, tasks, predictions, unacked, wk>>

\* predict: the except branch after a failed publish
predict_mark_failed(r) ==
  /\ reqs[r].pc = "mark_failed"
  /\ LET q == reqs[r] IN
     \/ /\ tasks' = [tasks EXCEPT ![r] =
              [@ EXCEPT !.status = "failed", !.error_message = "publish"]]
        /\ reqs' = [reqs EXCEPT ![r] = Finish(q, "unavailable")]
        /\ NoFault
     \/ /\ reqs' = [reqs EXCEPT ![r] = Finish(q, "error")]
        /\ UNCHANGED tasks
        /\ NoFault
  /\ UNCHANGED <<main, domain_model, call, answer, catalog, initial, balance, txs, predictions, queue, unacked, publisher, wk>>

\* a handler ends where it stands, before its next commit: the commit raises
\* and the error propagates to the framework, or the API process dies
api_abort(r) ==
  /\ reqs[r].pc \in {"deposit_commit", "withdraw_commit", "add_task", "publish", "sync_commit"}
  /\ Fault
  /\ reqs' = [reqs EXCEPT ![r] = Finish(reqs[r], "aborted")]
  /\ UNCHANGED <<main, domain_model, call, answer, catalog, initial, balance, txs, tasks, predictions, queue, unacked,
                 publisher, wk>>

\* ------------------------------------------------- synchronous prediction
\* PredictionResponse of the synchronous endpoint
PredictionResponse(score) ==
  [prediction |-> score, model_name |-> "court_order_suitability_v1",
   credits_charged |-> PriceCredits]

\* POST /predict of main.py up to the commit inside withdraw_credits: the
\* catalog lookup (500 when absent), the account query, the balance check,
\* the scorer, and the call of withdraw_credits, whose ValueError becomes a
\* 400.  The request body passed PredictionRequest.
predict_sync(r, u) ==
  /\ Arrives(r)
  /\ LET q == [reqs[r] EXCEPT !.kind = "sync", !.user = u, !.payload = "good",
                              !.amount = PriceCredits]
         b == balance[u]
         d == withdraw_checks([q EXCEPT !.snap = b])
     IN reqs' = [reqs EXCEPT ![r] =
          IF ~catalog THEN Finish(q, "model_not_found")
          ELSE IF InsufficientBalance(b) THEN Finish(q, "payment_required")
          ELSE IF d.pc = "done" THEN [d EXCEPT !.outcome = "bad_request"]
          ELSE [d EXCEPT !.pc = "sync_commit"]]
  /\ UNCHANGED <<main, domain_model, call, answer, catalog, initial, balance, txs, tasks, predictions, queue, unacked,
                 publisher, wk, faults>>

\* POST /predict of main.py: the commit inside withdraw_credits writes the
\* balance and the transaction, then the handler returns the response
predict_sync_commit(r) ==
  /\ reqs[r].pc = "sync_commit"
  /\ LET q == reqs[r] IN
        /\ balance' = [balance EXCEPT ![q.user] = q.snap - q.amount]
        /\ txs' = txs \cup {Tx(q.user, 0 - q.amount, "withdraw", r)}
        /\ reqs' = [reqs EXCEPT ![r] =
              Finish(q, "ok") @@
                [resp |-> PredictionResponse(calculate_prediction_main(Payload(q.payload)))]]
        /\ NoFault
  /\ UNCHANGED <<main, domain_model, call, answer, catalog, initial, tasks, predictions, queue, unacked, publisher, wk>>

\* the broker connection of the API process is lost
publisher_lost ==
  /\ publisher = "open"
  /\ Fault
  /\ publisher' = "lost"
  /\ UNCHANGED <<main, domain_model, call, answer, catalog, initial, balance, txs, tasks, predictions, queue, unacked,
                 reqs, wk>>

\* ------------------------------------------------------------------ worker
SetWk(w, rec) == wk' = [wk EXCEPT ![w] = rec]
TaskOf(w) == wk[w].msg.task_id

\* bodies from which callback cannot read a task id: json.loads raises on
\* the first, message["task_id"] on the second
MalformedBodies ==
  {[task_id |-> 0, user_id |-> 0, model_id |-> 0, input_data |-> "not_json"],
   [task_id |-> 0, user_id |-> 1, model_id |-> ModelId, input_data |-> "no_task_id"]}
Unparsable(m) == m \in MalformedBodies

\* a broker that hands out ready messages without a prefetch limit: a consumer
\* gets the next message while it still holds the previous one
deliver_no_prefetch(w) ==
  /\ \A v \in Workers : v < w => wk[v].pc # "idle"
  /\ \E m \in queue :
       /\ queue' = queue \ {m}
       /\ unacked' = [unacked EXCEPT ![w] = m]
       /\ SetWk(w, [IdleWorker EXCEPT !.pc = IF Unparsable(m) THEN "reject" ELSE "lookup",
              !.msg = m,
              !.seen = IF m.task_id \in TaskIds THEN tasks[m.task_id].status ELSE "none"])
  /\ UNCHANGED <<main, domain_model, call, answer, catalog, initial, balance, txs, tasks, predictions, publisher, reqs, faults>>

\* the broker hands a ready message to an idle consumer (prefetch_count=1);
\* callback parses it and process_ml_task opens a session, or the parsing
\* raises
deliver(w) ==
  /\ wk[w].pc = "idle"
  /\ \A v \in Workers : v < w => wk[v].pc # "idle"
  /\ unacked[w] = NoMsg
  /\ \E m \in queue :
       /\ queue' = queue \ {m}
       /\ unacked' = [unacked EXCEPT ![w] = m]
       /\ SetWk(w, [IdleWorker EXCEPT !.pc = IF Unparsable(m) THEN "reject" ELSE "lookup",
              !.msg = m,
              !.seen = IF m.task_id \in TaskIds THEN tasks[m.task_id].status ELSE "none"])
  /\ UNCHANGED <<main, domain_model, call, answer, catalog, initial, balance, txs, tasks, predictions, publisher, reqs, faults>>

\* process_ml_task without the `task.status != "pending"` return
process_lookup_no_status_check(w) ==
  /\ wk[w].pc = "lookup"
  /\ SetWk(w,
       IF TaskOf(w) \notin TaskIds THEN [wk[w] EXCEPT !.pc = "ack", !.path = "missing"]
       ELSE [wk[w] EXCEPT !.pc = "begin"])
  /\ UNCHANGED <<main, domain_model, call, answer, catalog, initial, balance, txs, tasks, predictions, queue, unacked,
                 publisher, reqs, faults>>

\* process_ml_task: the task query and the two early returns
process_lookup(w) ==
  /\ wk[w].pc = "lookup"
  /\ SetWk(w,
       IF TaskOf(w) \notin TaskIds THEN [wk[w] EXCEPT !.pc = "ack", !.path = "missing"]
       ELSE IF tasks[TaskOf(w)].status # "pending"
         THEN [wk[w] EXCEPT !.pc = "ack", !.path = "duplicate"]
       ELSE [wk[w] EXCEPT !.pc = "begin"])
  /\ UNCHANGED <<main, domain_model, call, answer, catalog, initial, balance, txs, tasks, predictions, queue, unacked,
                 publisher, reqs, faults>>

\* a handler that validates before it marks the task as processing: a task
\* whose payload fails validation goes on to be failed without the
\* "processing" commit
process_begin_validates_first(w) ==
  /\ wk[w].pc = "begin"
  /\ \/ /\ tasks' = [tasks EXCEPT ![TaskOf(w)] =
              IF validate_input_data(Payload(@.input_data)) # "" THEN @
              ELSE [@ EXCEPT !.status = "processing", !.started_at = TRUE]]
        /\ SetWk(w, [wk[w] EXCEPT !.pc = "validate"])
        /\ NoFault
     \/ /\ Fault
        /\ SetWk(w, [wk[w] EXCEPT !.pc = "handler", !.path = "commit"])
        /\ UNCHANGED tasks
  /\ UNCHANGED <<main, domain_model, call, answer, catalog, initial, balance, txs, predictions, queue, unacked, publisher, reqs>>

\* process_ml_task: status = "processing", started_at, db.commit()
process_begin(w) ==
  /\ wk[w].pc = "begin"
  /\ \/ /\ tasks' = [tasks EXCEPT ![TaskOf(w)] =
              [@ EXCEPT !.status = "processing", !.started_at = TRUE]]
        /\ SetWk(w, [wk[w] EXCEPT !.pc = "validate"])
        /\ NoFault
     \/ /\ Fault
        /\ SetWk(w, [wk[w] EXCEPT !.pc = "handler", !.path = "commit"])
        /\ UNCHANGED tasks
  /\ UNCHANGED <<main, domain_model, call, answer, catalog, initial, balance, txs, predictions, queue, unacked, publisher, reqs>>

\* the checks before the scorer without the call of validate_input_data
PreScoreError_no_validation(d) ==
  IF ~catalog THEN "model_not_found"
  ELSE IF ~PredictionRequestOk(d) THEN "format"
  ELSE ""

\* the error process_ml_task records before it calls the scorer, "" if none:
\* failed validation, model row absent, PredictionRequest rejected
PreScoreError(d) ==
  IF validate_input_data(d) # "" THEN "validation:" \o validate_input_data(d)
  ELSE IF ~catalog THEN "model_not_found"
  ELSE IF ~PredictionRequestOk(d) THEN "format"
  ELSE ""

PredictionsOf(t) == {x \in predictions : x.task = t}

PredictionRecord(t, score) ==
  [user_id |-> tasks[t].user_id, model_id |-> tasks[t].model_id,
   input_data |-> tasks[t].input_data, prediction |-> score,
   credits_charged |-> PriceCredits, task |-> t, n |-> Cardinality(PredictionsOf(t)) + 1]

\* a handler that validates and scores the payload of the message body
process_score_from_message(w) ==
  /\ wk[w].pc = "validate"
  /\ LET t == TaskOf(w)
         d == Payload(wk[w].msg.input_data)
         e == PreScoreError(d)
         score == calculate_prediction(d)
     IN
     \/ /\ e = ""
        /\ tasks' = [tasks EXCEPT ![t] =
              [@ EXCEPT !.prediction = score, !.credits_charged = PriceCredits,
                        !.status = "completed", !.completed_at = TRUE]]
        /\ predictions' = predictions \cup {PredictionRecord(t, score)}
        /\ SetWk(w, [wk[w] EXCEPT !.pc = "ack", !.path = "completed"])
        /\ NoFault
     \/ /\ e # ""
        /\ tasks' = [tasks EXCEPT ![t] =
              [@ EXCEPT !.status = "failed", !.error_message = e, !.completed_at = TRUE]]
        /\ SetWk(w, [wk[w] EXCEPT !.pc = "ack", !.path = "rejected"])
        /\ UNCHANGED predictions
        /\ NoFault
     \/ /\ Fault
        /\ \E c \in (IF e = "" THEN {"scorer", "commit"} ELSE {"commit"}) :
              SetWk(w, [wk[w] EXCEPT !.pc = "handler", !.path = c])
        /\ UNCHANGED <<tasks, predictions>>
  /\ UNCHANGED <<main, domain_model, call, answer, catalog, initial, balance, txs, queue, unacked, publisher, reqs>>

\* process_ml_task from validation to the last commit.  A failed validation,
\* an absent model row and a rejected PredictionRequest end the task as
\* failed.  Otherwise calculate_prediction is called and the result, status
\* "completed" and the history record are committed together.  The scorer
\* (called only after the three checks passed) or the commit may raise, which
\* leads to the except branch.
process_score(w) ==
  /\ wk[w].pc = "validate"
  /\ LET t == TaskOf(w)
         d == Payload(tasks[t].input_data)
         e == PreScoreError(d)
         score == calculate_prediction(d)
     IN
     \/ /\ e = ""
        /\ tasks' = [tasks EXCEPT ![t] =
              [@ EXCEPT !.prediction = score, !.credits_charged = PriceCredits,
                        !.status = "completed", !.completed_at = TRUE]]
        /\ predictions' = predictions \cup {PredictionRecord(t, score)}
        /\ SetWk(w, [wk[w] EXCEPT !.pc = "ack", !.path = "completed"])
        /\ NoFault
     \/ /\ e # ""
        /\ tasks' = [tasks EXCEPT ![t] =
              [@ EXCEPT !.status = "failed", !.error_message = e, !.completed_at = TRUE]]
        /\ SetWk(w, [wk[w] EXCEPT !.pc = "ack", !.path = "rejected"])
        /\ UNCHANGED predictions
        /\ NoFault
     \/ /\ Fault
        /\ \E c \in (IF e = "" THEN {"scorer", "commit"} ELSE {"commit"}) :
              SetWk(w, [wk[w] EXCEPT !.pc = "handler", !.path = c])
        /\ UNCHANGED <<tasks, predictions>>
  /\ UNCHANGED <<main, domain_model, call, answer, catalog, initial, balance, txs, queue, unacked, publisher, reqs>>

\* an except branch that gives the credits back when it records the failure
process_handler_refunds(w) ==
  /\ wk[w].pc = "handler"
  /\ LET t == TaskOf(w) u == tasks[t].user_id IN
        /\ tasks' = [tasks EXCEPT ![t] =
              [@ EXCEPT !.status = "failed", !.error_message = "internal",
                        !.completed_at = TRUE]]
        /\ balance' = [balance EXCEPT ![u] = @ + PriceCredits]
        /\ txs' = txs \cup {[account |-> u, amount |-> PriceCredits, type |-> "deposit",
                              req |-> t, description |-> "refund"]}
  /\ SetWk(w, [wk[w] EXCEPT !.pc = "ack", !.path = "handled"])
  /\ NoFault
  /\ UNCHANGED <<main, domain_model, call, answer, catalog, initial, predictions, queue, unacked, publisher, reqs>>

\* process_ml_task: the except branch; its own failure is passed over
process_handler(w) ==
  /\ wk[w].pc = "handler"
  /\ \/ /\ tasks' = [tasks EXCEPT ![TaskOf(w)] =
              [@ EXCEPT !.status = "failed", !.error_message = "internal",
                        !.completed_at = TRUE]]
        /\ SetWk(w, [wk[w] EXCEPT !.pc = "ack", !.path = "handled"])
        /\ NoFault
     \/ /\ SetWk(w, [wk[w] EXCEPT !.pc = "ack", !.path = "swallowed"])
        /\ UNCHANGED tasks
        /\ NoFault
  /\ UNCHANGED <<main, domain_model, call, answer, catalog, initial, balance, txs, predictions, queue, unacked, publisher, reqs>>

\* a callback whose acknowledgment leaves the message ready in the queue
callback_ack_requeues(w) ==
  /\ wk[w].pc = "ack"
  /\ queue' = IF unacked[w] = NoMsg THEN queue ELSE queue \cup {unacked[w]}
  /\ unacked' = [unacked EXCEPT ![w] = NoMsg]
  /\ SetWk(w, IdleWorker)
  /\ UNCHANGED <<main, domain_model, call, answer, catalog, initial, balance, txs, tasks, predictions, publisher,
                 reqs, faults>>

\* callback: basic_ack after process_ml_task returned.  On a channel the
\* broker already closed the ack raises, the nack raises too, and the
\* consumer reconnects.
callback_ack(w) ==
  /\ wk[w].pc = "ack"
  /\ unacked' = [unacked EXCEPT ![w] = NoMsg]
  /\ SetWk(w, IdleWorker)
  /\ UNCHANGED <<main, domain_model, call, answer, catalog, initial, balance, txs, tasks, predictions, queue, publisher,
                 reqs, faults>>

\* a callback that rejects without requeue
callback_nack_no_requeue(w) ==
  /\ wk[w].pc \in {"lookup", "ack"}
  /\ wk[w].conn
  /\ Fault
  /\ unacked' = [unacked EXCEPT ![w] = NoMsg]
  /\ SetWk(w, [IdleWorker EXCEPT !.path = "nacked"])
  /\ UNCHANGED <<main, domain_model, call, answer, catalog, initial, balance, txs, tasks, predictions, queue,
                 publisher, reqs>>

\* callback: the except branch, basic_nack(requeue=True).  It runs when an
\* error leaves process_ml_task: SessionLocal() before its try block raises,
\* or db.close() in its finally block does.
callback_nack(w) ==
  /\ wk[w].pc \in {"lookup", "ack"}
  /\ wk[w].conn
  /\ Fault
  /\ queue' = queue \cup {unacked[w]}
  /\ unacked' = [unacked EXCEPT ![w] = NoMsg]
  /\ SetWk(w, [IdleWorker EXCEPT !.path = "nacked"])
  /\ UNCHANGED <<main, domain_model, call, answer, catalog, initial, balance, txs, tasks, predictions, publisher, reqs>>

\* callback: json.loads(body) or message["task_id"] raised; the except branch
\* sends basic_nack(requeue=True) and the message is ready again
callback_reject(w) ==
  /\ wk[w].pc = "reject"
  /\ queue' = IF unacked[w] = NoMsg THEN queue ELSE queue \cup {unacked[w]}
  /\ unacked' = [unacked EXCEPT ![w] = NoMsg]
  /\ SetWk(w, [IdleWorker EXCEPT !.path = "nacked"])
  /\ UNCHANGED <<main, domain_model, call, answer, catalog, initial, balance, txs, tasks, predictions,
                 publisher, reqs, faults>>

\* the broker closes a consumer's connection while its handler runs (missed
\* heartbeats, network): the unacknowledged message goes back to the queue and
\* the handler runs on
connection_lost(w) ==
  /\ wk[w].pc # "idle"
  /\ wk[w].conn
  /\ Fault
  /\ queue' = queue \cup {unacked[w]}
  /\ unacked' = [unacked EXCEPT ![w] = NoMsg]
  /\ SetWk(w, [wk[w] EXCEPT !.conn = FALSE])
  /\ UNCHANGED <<main, domain_model, call, answer, catalog, initial, balance, txs, tasks, predictions, publisher, reqs>>

\* a worker process dies inside its handler and is started again; the broker
\* requeues what it had not acknowledged
worker_crash(w) ==
  /\ wk[w].pc # "idle"
  /\ Fault
  /\ queue' = IF unacked[w] = NoMsg THEN queue ELSE queue \cup {unacked[w]}
  /\ unacked' = [unacked EXCEPT ![w] = NoMsg]
  /\ SetWk(w, IdleWorker)
  /\ UNCHANGED <<main, domain_model, call, answer, catalog, initial, balance, txs, tasks, predictions, publisher, reqs>>

\* ------------------------------------------------------------ status query
\* task ids a status request asks for: the existing ones and one beyond
QueryIds == 1..(NumReqs + 1)

\* the users who ask: the owner of the backlog's tasks and one other user
\* (the users other than the first are interchangeable: none has a task)
QueryUsers == {1, NumUsers}

\* HTTPException(404, "Задача не найдена")
NotFound == [code |-> 404, detail |-> "task_not_found"]

\* a projection that reports the error column for every status
TaskProjection_error_always(t) ==
  LET task == tasks[t]
      result == [code |-> 200, task_id |-> t, status |-> task.status,
                 model_name |-> IF catalog THEN "court_order_suitability_v1" ELSE "unknown",
                 credits_charged |-> task.credits_charged,
                 started_at |-> task.started_at, completed_at |-> task.completed_at,
                 error_message |-> task.error_message]
  IN IF task.status = "completed"
       THEN result @@ [prediction |-> IF task.prediction > 0 THEN task.prediction ELSE -1,
                       input_data |-> task.input_data]
     ELSE result

\* get_task_status: the dictionary built from a task row.  A key that is not
\* put into the dictionary is not in the record's domain.
TaskProjection(t) ==
  LET task == tasks[t]
      result == [code |-> 200, task_id |-> t, status |-> task.status,
                 model_name |-> IF catalog THEN "court_order_suitability_v1" ELSE "unknown",
                 credits_charged |-> task.credits_charged,
                 started_at |-> task.started_at, completed_at |-> task.completed_at]
  IN IF task.status = "completed"
       THEN result @@ [prediction |-> IF task.prediction > 0 THEN task.prediction ELSE -1,
                       input_data |-> task.input_data]
     ELSE IF task.status = "failed"
       THEN result @@ [error_message |-> task.error_message]
     ELSE result

\* get_task_status: the query filtered by id and owner, then the projection
TaskStatusResponse(u, t) ==
  IF t \notin TaskIds \/ tasks[t].user_id # u THEN NotFound ELSE TaskProjection(t)

\* a status request that looks the task up by id alone and then refuses the
\* caller who is not its owner
get_task_status_by_id(u, t) ==
  /\ answer' = [caller |-> u, task_id |-> t,
                resp |-> IF t \notin TaskIds THEN NotFound
                         ELSE IF tasks[t].user_id # u
                           THEN [code |-> 403, detail |-> "forbidden"]
                         ELSE TaskProjection(t)]
  /\ UNCHANGED <<main, domain_model, call, catalog, initial, balance, txs, tasks, predictions, queue, unacked,
                 publisher, reqs, wk, faults>>

\* GET /task/{task_id} by user u
get_task_status(u, t) ==
  /\ answer' = [caller |-> u, task_id |-> t, resp |-> TaskStatusResponse(u, t)]
  /\ UNCHANGED <<main, domain_model, call, catalog, initial, balance, txs, tasks, predictions, queue, unacked,
                 publisher, reqs, wk, faults>>

\* ----------------------------------------------------------- specification
\* the steps of the API process, the bot and the direct ledger callers
NextApi ==
  \/ \E r \in Reqs, u \in Users, a \in Amounts : deposit_credits(r, u, a)
  \/ \E r \in Reqs : deposit_commit(r)
  \/ \E r \in Reqs, u \in Users, a \in Amounts : withdraw_credits(r, u, a)
  \/ \E r \in Reqs : withdraw_commit(r)
  \/ \E r \in Reqs, u \in Users, p \in SubmitPayloads : predict(r, u, p)
  \/ \E r \in Reqs : predict_add_task(r)
  \/ \E r \in Reqs : predict_publish(r)
  \/ \E r \in Reqs : predict_mark_failed(r)
  \/ \E r \in Reqs : api_abort(r)
  \/ publisher_lost

\* the steps of the broker and the worker processes
NextWorker ==
  \/ \E w \in Workers : deliver(w)
  \/ \E w \in Workers : process_lookup(w)
  \/ \E w \in Workers : process_begin(w)
  \/ \E w \in Workers : process_score(w)
  \/ \E w \in Workers : process_handler(w)
  \/ \E w \in Workers : callback_ack(w)
  \/ \E w \in Workers : callback_nack(w)
  \/ \E w \in Workers : connection_lost(w)
  \/ \E w \in Workers : worker_crash(w)

\* the steps of the synchronous endpoint
NextSync ==
  \/ \E r \in Reqs, u \in Users : predict_sync(r, u)
  \/ \E r \in Reqs : predict_sync_commit(r)

Next == NextApi \/ NextWorker \/ NextSync

\* the whole system
Spec == Init /\ [][Next]_vars

\* the API side while no worker process runs (the worker is a separate
\* process; messages wait in the durable queue)
SpecApi == Init /\ [][NextApi]_vars

\* A backlog: every request was a successful submission of user 1, who
\* started with the price of each; the tasks are pending and their messages
\* wait in the queue.  The catalog row exists, since the submissions found it
\* and nothing deletes it.  Tasks are interchangeable, so the backlog is
\* listed with the "good" payloads first.
BacklogReq == [IdleReq EXCEPT !.pc = "done", !.kind = "submit", !.user = 1, !.outcome = "ok"]
BacklogTask(r, p) ==
  NewTask([IdleReq EXCEPT !.kind = "submit", !.user = 1, !.payload = p], r)
BacklogPayloads ==
  {ps \in [Reqs -> SubmitPayloads] :
     \A r \in Reqs : (r > 1 /\ ps[r] = "good") => ps[r - 1] = "good"}

InitBacklog ==
  /\ catalog = TRUE
  /\ initial = [u \in Users |-> IF u = 1 THEN NumReqs * PriceCredits ELSE NoAccount]
  /\ balance = [u \in Users |-> IF u = 1 THEN 0 ELSE NoAccount]
  /\ reqs = [r \in Reqs |-> BacklogReq]
  /\ txs = {[account |-> 1, amount |-> 0 - PriceCredits, type |-> "withdraw", req |-> r,
             description |-> "ml_task"] : r \in Reqs}
  /\ \E ps \in BacklogPayloads :
        /\ tasks = [r \in Reqs |-> BacklogTask(r, ps[r])]
        /\ queue = {[task_id |-> r, user_id |-> 1, model_id |-> ModelId, input_data |-> ps[r]] :
                      r \in Reqs}
  /\ predictions = {}
  /\ unacked = [w \in Workers |-> NoMsg]
  /\ publisher = "open"
  /\ wk = [w \in Workers |-> IdleWorker]
  /\ faults = 0
  /\ answer = NoAnswer
  /\ call = NoCall
  /\ main = NoMain
  /\ domain_model = NoDomain

\* the workers consuming a backlog while the API is quiet
SpecWorker == InitBacklog /\ [][NextWorker]_vars

\* the workers, their connections up, consuming a backlog while users ask for
\* the status of tasks
NextStatus ==
  \/ \E w \in Workers : deliver(w)
  \/ \E w \in Workers : process_lookup(w)
  \/ \E w \in Workers : process_begin(w)
  \/ \E w \in Workers : process_score(w)
  \/ \E w \in Workers : process_handler(w)
  \/ \E w \in Workers : callback_ack(w)
  \/ \E u \in QueryUsers, t \in QueryIds : get_task_status(u, t)

SpecStatus == InitBacklog /\ [][NextStatus]_vars

\* A backlog whose last message has no task row.  The queue is durable and
\* its messages persistent, the database is a separate store: here it was
\* restored from a copy taken before the last submission, so the row, the
\* debit and the ledger entry of that submission are not in it.
InitStale ==
  /\ catalog = TRUE
  /\ initial = [u \in Users |-> IF u = 1 THEN NumReqs * PriceCredits ELSE NoAccount]
  /\ balance = [u \in Users |-> IF u = 1 THEN PriceCredits ELSE NoAccount]
  /\ reqs = [r \in Reqs |-> BacklogReq]
  /\ txs = {[account |-> 1, amount |-> 0 - PriceCredits, type |-> "withdraw", req |-> r,
             description |-> "ml_task"] : r \in 1..(NumReqs - 1)}
  /\ \E ps \in BacklogPayloads :
        /\ tasks = [r \in 1..(NumReqs - 1) |-> BacklogTask(r, ps[r])]
        /\ queue = {[task_id |-> r, user_id |-> 1, model_id |-> ModelId, input_data |-> ps[r]] :
                      r \in Reqs}
  /\ predictions = {}
  /\ unacked = [w \in Workers |-> NoMsg]
  /\ publisher = "open"
  /\ wk = [w \in Workers |-> IdleWorker]
  /\ faults = 0
  /\ answer = NoAnswer
  /\ call = NoCall
  /\ main = NoMain
  /\ domain_model = NoDomain

\* A backlog during a redelivery: the first worker read its task as pending
\* (deliver, process_lookup), then the broker closed its connection and put
\* the message back into the queue (connection_lost); its handler runs on.
\* The faults are counted from this state on.
InitRedelivered ==
  /\ catalog = TRUE
  /\ initial = [u \in Users |-> IF u = 1 THEN NumReqs * PriceCredits ELSE NoAccount]
  /\ balance = [u \in Users |-> IF u = 1 THEN 0 ELSE NoAccount]
  /\ reqs = [r \in Reqs |-> BacklogReq]
  /\ txs = {[account |-> 1, amount |-> 0 - PriceCredits, type |-> "withdraw", req |-> r,
             description |-> "ml_task"] : r \in Reqs}
  /\ \E ps \in BacklogPayloads :
        /\ tasks = [r \in Reqs |-> BacklogTask(r, ps[r])]
        /\ queue = {[task_id |-> r, user_id |-> 1, model_id |-> ModelId, input_data |-> ps[r]] :
                      r \in Reqs}
        /\ wk = [w \in Workers |->
                   IF w = 1
                     THEN [IdleWorker EXCEPT
                             !.pc = "begin", !.conn = FALSE, !.seen = "pending",
                             !.msg = [task_id |-> 1, user_id |-> 1, model_id |-> ModelId,
                                      input_data |-> ps[1]]]
                   ELSE IdleWorker]
  /\ predictions = {}
  /\ unacked = [w \in Workers |-> NoMsg]
  /\ publisher = "open"
  /\ faults = 0
  /\ answer = NoAnswer
  /\ call = NoCall
  /\ main = NoMain
  /\ domain_model = NoDomain

\* the workers consuming a backlog one of whose messages is being redelivered
SpecRedelivered == InitRedelivered /\ [][NextWorker]_vars

\* The feature vectors given to the scorer, all accepted by
\* PredictionRequest: debts around the 100000 threshold, overdue days around
\* 90, both kinds of debtor, ratios from 0 to 1 and the vector of the API
\* test.
ScorerInputs ==
  {[total_debt |-> Val("float", debt), penalty_amount |-> Val("float", pen),
    days_overdue |-> Val("int", days), payments_ratio |-> Val("float", ratio),
    is_physical_person |-> Val("bool", person)] :
     debt \in {1, 5000000, 10000000, 10000001, 25000000},
     pen \in {0, 500000},
     days \in {0, 9000, 9100, 12000},
     ratio \in {30} \cup {(k * 100) \div RatioSteps : k \in 0..RatioSteps},
     person \in {0, 100}}

\* a quiet system in which one feature vector is about to be scored
InitScorer ==
  /\ call \in {[fn |-> "request", arg |-> d] : d \in ScorerInputs}
  /\ main = NoMain
  /\ domain_model = NoDomain
  /\ catalog = TRUE
  /\ initial = [u \in Users |-> PriceCredits]
  /\ balance = initial
  /\ txs = {}
  /\ tasks = <<>>
  /\ predictions = {}
  /\ queue = {}
  /\ unacked = [w \in Workers |-> NoMsg]
  /\ publisher = "unset"
  /\ reqs = [r \in Reqs |-> IdleReq]
  /\ wk = [w \in Workers |-> IdleWorker]
  /\ faults = 0
  /\ answer = NoAnswer

\* calculate_prediction of services/prediction.py applied to the vector
call_calculate_prediction ==
  /\ call.fn = "request"
  /\ PredictionRequestOk(call.arg)
  /\ call' = [fn |-> "calculate_prediction", arg |-> call.arg,
               result |-> calculate_prediction(call.arg)]
  /\ UNCHANGED <<main, domain_model, catalog, initial, balance, txs, tasks, predictions, queue, unacked,
                 publisher, reqs, wk, faults, answer>>

\* calculate_prediction of main.py applied to the vector
call_calculate_prediction_main ==
  /\ call.fn = "request"
  /\ PredictionRequestOk(call.arg)
  /\ call' = [fn |-> "calculate_prediction_main", arg |-> call.arg,
               result |-> calculate_prediction_main(call.arg)]
  /\ UNCHANGED <<main, domain_model, catalog, initial, balance, txs, tasks, predictions, queue, unacked,
                 publisher, reqs, wk, faults, answer>>

NextScorer == call_calculate_prediction \/ call_calculate_prediction_main

\* the two scorers applied to a bounded set of valid feature vectors
SpecScorer == InitScorer /\ [][NextScorer]_vars

\* values a key of a stored JSON payload can hold: absent, integers, floats,
\* booleans, NaN (json.dumps writes it, json.loads reads it back) and strings
JsonValues ==
  {Missing, Val("int", -100), Val("int", 0), Val("int", 100), Val("int", 200),
   Val("float", 50), Val("bool", 0), Val("bool", 100), Val("nan", 0), Val("str", 0)}

\* what validate_input_data may be handed: dictionaries over the five keys
\* and a payload that is no dictionary
ValidateInputs == [Fields -> JsonValues] \cup {NullPayload}

\* a quiet system in which one payload is about to be validated
InitValidate ==
  /\ call \in {[fn |-> "request", arg |-> d] : d \in ValidateInputs}
  /\ main = NoMain
  /\ domain_model = NoDomain
  /\ catalog = TRUE
  /\ initial = [u \in Users |-> PriceCredits]
  /\ balance = initial
  /\ txs = {}
  /\ tasks = <<>>
  /\ predictions = {}
  /\ queue = {}
  /\ unacked = [w \in Workers |-> NoMsg]
  /\ publisher = "unset"
  /\ reqs = [r \in Reqs |-> IdleReq]
  /\ wk = [w \in Workers |-> IdleWorker]
  /\ faults = 0
  /\ answer = NoAnswer

\* validate_input_data applied to the payload; it returns in every case
call_validate_input_data ==
  /\ call.fn = "request"
  /\ call' = [fn |-> "validate_input_data", arg |-> call.arg, raised |-> FALSE,
               result |-> validate_input_data(call.arg)]
  /\ UNCHANGED <<main, domain_model, catalog, initial, balance, txs, tasks, predictions, queue, unacked,
                 publisher, reqs, wk, faults, answer>>

NextValidate == call_validate_input_data

\* the validation applied to a bounded set of payloads
SpecValidate == InitValidate /\ [][NextValidate]_vars

\* the workers consuming a backlog that holds a message without task row
SpecStale == InitStale /\ [][NextWorker]_vars

\* A backlog and one message that no submission wrote: another producer put
\* a body on the durable queue that is not JSON, or a JSON object without
\* task_id.
InitPoison ==
  /\ catalog = TRUE
  /\ initial = [u \in Users |-> IF u = 1 THEN NumReqs * PriceCredits ELSE NoAccount]
  /\ balance = [u \in Users |-> IF u = 1 THEN 0 ELSE NoAccount]
  /\ reqs = [r \in Reqs |-> BacklogReq]
  /\ txs = {[account |-> 1, amount |-> 0 - PriceCredits, type |-> "withdraw", req |-> r,
             description |-> "ml_task"] : r \in Reqs}
  /\ \E ps \in BacklogPayloads, bad \in MalformedBodies :
        /\ tasks = [r \in Reqs |-> BacklogTask(r, ps[r])]
        /\ queue = {[task_id |-> r, user_id |-> 1, model_id |-> ModelId, input_data |-> ps[r]] :
                      r \in Reqs} \cup {bad}
  /\ predictions = {}
  /\ unacked = [w \in Workers |-> NoMsg]
  /\ publisher = "open"
  /\ wk = [w \in Workers |-> IdleWorker]
  /\ faults = 0
  /\ answer = NoAnswer
  /\ call = NoCall
  /\ main = NoMain
  /\ domain_model = NoDomain

NextPoison ==
  \/ NextWorker
  \/ \E w \in Workers : callback_reject(w)

\* the workers consuming that queue; the broker delivers to an idle consumer
\* and every handler runs to its acknowledgment or rejection
FairSpecPoison ==
  /\ InitPoison /\ [][NextPoison]_vars
  /\ \A w \in Workers :
       /\ WF_vars(deliver(w))
       /\ WF_vars(process_lookup(w) \/ process_begin(w) \/ process_score(w)
                    \/ process_handler(w) \/ callback_ack(w) \/ callback_reject(w))

\* a body that names task r and differs from the task's row in everything
\* else: another user, another model, the other payload
ForeignBody(r, p) ==
  [task_id |-> r, user_id |-> NumUsers, model_id |-> ModelId + 1,
   input_data |-> IF p = "good" THEN "nan_ratio" ELSE "good"]

\* the payload of the backlog's task r: valid for odd r, NaN ratio for even r
RowPayload(r) == IF r % 2 = 1 THEN "good" ELSE "nan_ratio"

\* A backlog whose messages are either the ones publish_task built from the
\* rows or bodies of another producer that agree with the rows in the
\* task_id only.
InitForeign ==
  /\ catalog = TRUE
  /\ initial = [u \in Users |-> IF u = 1 THEN NumReqs * PriceCredits ELSE NoAccount]
  /\ balance = [u \in Users |-> IF u = 1 THEN 0 ELSE NoAccount]
  /\ reqs = [r \in Reqs |-> BacklogReq]
  /\ txs = {[account |-> 1, amount |-> 0 - PriceCredits, type |-> "withdraw", req |-> r,
             description |-> "ml_task"] : r \in Reqs}
  /\ tasks = [r \in Reqs |-> BacklogTask(r, RowPayload(r))]
  /\ \E foreign \in BOOLEAN :
        queue = {IF foreign THEN ForeignBody(r, RowPayload(r))
                 ELSE [task_id |-> r, user_id |-> 1, model_id |-> ModelId,
                       input_data |-> RowPayload(r)] : r \in Reqs}
  /\ predictions = {}
  /\ unacked = [w \in Workers |-> NoMsg]
  /\ publisher = "open"
  /\ wk = [w \in Workers |-> IdleWorker]
  /\ faults = 0
  /\ answer = NoAnswer
  /\ call = NoCall
  /\ main = NoMain
  /\ domain_model = NoDomain

\* the workers consuming that backlog
SpecForeign == InitForeign /\ [][NextWorker]_vars

\* ------------------------------------------------------- worker main loop
\* main(): `for attempt in range(max_retries)` around connect, declare,
\* consume.  pc is the place in the loop, attempt the loop variable, errors
\* the AMQPConnectionErrors caught so far, connected the connections opened
\* so far, delay the argument of the sleep under way.
max_retries == 30
retry_delay == 2

MainExited == {"failed", "returned", "stopped", "crashed"}

\* a worker process was started: its first iteration is about to connect
InitMain ==
  /\ catalog = TRUE
  /\ initial = [u \in Users |-> NoAccount]
  /\ balance = initial
  /\ txs = {}
  /\ tasks = <<>>
  /\ predictions = {}
  /\ queue = {}
  /\ unacked = [w \in Workers |-> NoMsg]
  /\ publisher = "unset"
  /\ reqs = [r \in Reqs |-> IdleReq]
  /\ wk = [w \in Workers |-> IdleWorker]
  /\ faults = 0
  /\ answer = NoAnswer
  /\ call = NoCall
  /\ main = [pc |-> "connect", attempt |-> 0, errors |-> 0, connected |-> 0, delay |-> 0]
  /\ domain_model = NoDomain

\* a loop whose successful connection starts the count of attempts again
main_connected_resets_attempt ==
  /\ main.pc = "connect"
  /\ main' = [main EXCEPT !.pc = "consuming", !.connected = Min(@ + 1, max_retries),
                          !.attempt = 0, !.errors = 0]
  /\ UNCHANGED <<domain_model, call, answer, catalog, initial, balance, txs, tasks, predictions,
                 queue, unacked, publisher, reqs, wk, faults>>

\* the try block up to start_consuming: BlockingConnection, channel,
\* queue_declare, basic_qos and basic_consume succeed and start_consuming
\* blocks.  The loop variable is left as it is.
main_connected ==
  /\ main.pc = "connect"
  /\ main' = [main EXCEPT !.pc = "consuming", !.connected = @ + 1]
  /\ UNCHANGED <<domain_model, call, answer, catalog, initial, balance, txs, tasks, predictions,
                 queue, unacked, publisher, reqs, wk, faults>>

\* an except branch that warns and sleeps after every connection error, the
\* last one included
main_connection_error_always_sleeps ==
  /\ main.pc \in {"connect", "consuming"}
  /\ main' = [main EXCEPT !.errors = @ + 1, !.pc = "sleep", !.delay = retry_delay]
  /\ UNCHANGED <<domain_model, call, answer, catalog, initial, balance, txs, tasks, predictions,
                 queue, unacked, publisher, reqs, wk, faults>>

\* except pika.exceptions.AMQPConnectionError: raised by BlockingConnection
\* when the broker is unreachable and by start_consuming when the connection
\* is lost.  Before the last iteration it sleeps retry_delay, in the last
\* one it raises again.
main_connection_error ==
  /\ main.pc \in {"connect", "consuming"}
  /\ main' = IF main.attempt < max_retries - 1
             THEN [main EXCEPT !.errors = @ + 1, !.pc = "sleep", !.delay = retry_delay]
             ELSE [main EXCEPT !.errors = @ + 1, !.pc = "failed"]
  /\ UNCHANGED <<domain_model, call, answer, catalog, initial, balance, txs, tasks, predictions,
                 queue, unacked, publisher, reqs, wk, faults>>

\* time.sleep(retry_delay) returns and the for statement takes its next
\* value; after the last value the loop is over and main returns
main_next_attempt ==
  /\ main.pc = "sleep"
  /\ main' = IF main.attempt < max_retries - 1
             THEN [main EXCEPT !.pc = "connect", !.attempt = @ + 1, !.delay = 0]
             ELSE [main EXCEPT !.pc = "returned", !.delay = 0]
  /\ UNCHANGED <<domain_model, call, answer, catalog, initial, balance, txs, tasks, predictions,
                 queue, unacked, publisher, reqs, wk, faults>>

\* start_consuming returns without an exception (the consumer was cancelled):
\* no except branch runs and the for statement takes its next value at once;
\* after the last value main returns
main_consuming_returns ==
  /\ main.pc = "consuming"
  /\ main' = IF main.attempt < max_retries - 1
             THEN [main EXCEPT !.pc = "connect", !.attempt = @ + 1]
             ELSE [main EXCEPT !.pc = "returned"]
  /\ UNCHANGED <<domain_model, call, answer, catalog, initial, balance, txs, tasks, predictions,
                 queue, unacked, publisher, reqs, wk, faults>>

\* KeyboardInterrupt: in the try block the except branch closes the
\* connection and breaks; during the sleep it leaves main as it is raised
main_interrupt ==
  /\ main.pc \in {"connect", "consuming", "sleep"}
  /\ main' = [main EXCEPT !.pc = "stopped", !.delay = 0]
  /\ UNCHANGED <<domain_model, call, answer, catalog, initial, balance, txs, tasks, predictions,
                 queue, unacked, publisher, reqs, wk, faults>>

\* except Exception: any other error of the try block (a channel error of
\* queue_declare, an error that leaves callback) is logged and raised again
main_unexpected_error ==
  /\ main.pc \in {"connect", "consuming"}
  /\ main' = [main EXCEPT !.pc = "crashed"]
  /\ UNCHANGED <<domain_model, call, answer, catalog, initial, balance, txs, tasks, predictions,
                 queue, unacked, publisher, reqs, wk, faults>>

NextMain ==
  \/ main_connected
  \/ main_connection_error
  \/ main_next_attempt
  \/ main_consuming_returns
  \/ main_interrupt
  \/ main_unexpected_error

\* one worker process from its start to its exit
SpecMain == InitMain /\ [][NextMain]_vars

\* the same with the scheduling the code has: a connection attempt returns
\* or raises (the socket timeout bounds it) and a sleep ends
FairSpecMain ==
  /\ InitMain /\ [][NextMain]_vars
  /\ WF_vars(main_connected \/ main_connection_error)
  /\ WF_vars(main_next_attempt)

\* ------------------------------------------------------------ domain model
\* domain_model.py: one User and one TopUpRequest for that user.  balance is
\* User._balance_credits, amount the request's amount, approved_by the id of
\* the approving Admin (NoAdmin for None), approved_at whether the timestamp
\* is set; last and raised tell the last method called and the ValueError it
\* raised ("" when it returned).
MaxBalance == 20
NoAdmin == 0
Admins == Users
\* amounts the methods are called with
DomainAmounts == Amounts \cup {3}

\* a new user (the default balance 0) and a request that was just created;
\* the dataclass takes any integer as amount
InitDomain ==
  /\ catalog = TRUE
  /\ initial = [u \in Users |-> NoAccount]
  /\ balance = initial
  /\ txs = {}
  /\ tasks = <<>>
  /\ predictions = {}
  /\ queue = {}
  /\ unacked = [w \in Workers |-> NoMsg]
  /\ publisher = "unset"
  /\ reqs = [r \in Reqs |-> IdleReq]
  /\ wk = [w \in Workers |-> IdleWorker]
  /\ faults = 0
  /\ answer = NoAnswer
  /\ call = NoCall
  /\ main = NoMain
  /\ \E a \in Amounts :
        domain_model = [balance |-> 0, amount |-> a, approved_by |-> NoAdmin,
                        approved_at |-> FALSE, last |-> "none", raised |-> ""]

\* User.top_up
User_top_up(a) ==
  /\ domain_model.balance + a <= MaxBalance
  /\ domain_model' =
       IF a <= 0 THEN [domain_model EXCEPT !.last = "top_up", !.raised = "positive"]
       ELSE [domain_model EXCEPT !.last = "top_up", !.raised = "", !.balance = @ + a]
  /\ UNCHANGED <<main, call, answer, catalog, initial, balance, txs, tasks, predictions,
                 queue, unacked, publisher, reqs, wk, faults>>

\* User.spend
User_spend(a) ==
  /\ domain_model' =
       IF a <= 0 THEN [domain_model EXCEPT !.last = "spend", !.raised = "positive"]
       ELSE IF ~(domain_model.balance >= a)
         THEN [domain_model EXCEPT !.last = "spend", !.raised = "insufficient"]
       ELSE [domain_model EXCEPT !.last = "spend", !.raised = "", !.balance = @ - a]
  /\ UNCHANGED <<main, call, answer, catalog, initial, balance, txs, tasks, predictions,
                 queue, unacked, publisher, reqs, wk, faults>>

\* TopUpRequest.approve: the approval fields are assigned before
\* self.user.top_up(self.amount) is called, whose ValueError leaves them set
TopUpRequest_approve(admin) ==
  /\ domain_model.balance + domain_model.amount <= MaxBalance
  /\ domain_model' =
       IF domain_model.approved_by # NoAdmin
         THEN [domain_model EXCEPT !.last = "approve", !.raised = "already"]
       ELSE IF domain_model.amount <= 0
         THEN [domain_model EXCEPT !.last = "approve", !.raised = "positive",
                                   !.approved_by = admin, !.approved_at = TRUE]
       ELSE [domain_model EXCEPT !.last = "approve", !.raised = "",
                                 !.approved_by = admin, !.approved_at = TRUE,
                                 !.balance = @ + domain_model.amount]
  /\ UNCHANGED <<main, call, answer, catalog, initial, balance, txs, tasks, predictions,
                 queue, unacked, publisher, reqs, wk, faults>>

NextDomain ==
  \/ \E a \in DomainAmounts : User_top_up(a)
  \/ \E a \in DomainAmounts : User_spend(a)
  \/ \E admin \in Admins : TopUpRequest_approve(admin)

\* calls of top_up, spend and approve in any order
SpecDomain == InitDomain /\ [][NextDomain]_vars

\* ------------------------------------------------------------------ claims
RECURSIVE SumAmounts(_)
SumAmounts(S) ==
  IF S = {} THEN 0
  ELSE LET x == CHOOSE y \in S : TRUE IN x.amount + SumAmounts(S \ {x})

TxsOf(u) == {x \in txs : x.account = u}
DepositsOf(u) == {x \in txs : x.account = u /\ x.type = "deposit"}
TasksOf(u) == {t \in TaskIds : tasks[t].user_id = u}
\* a message referencing task t is ready, or delivered and unacknowledged
InBroker(t) == (\E m \in queue : m.task_id = t) \/ (\E w \in Workers : unacked[w].task_id = t)
\* some handler is running on a delivery of task t
InHandler(t) == \E w \in Workers : wk[w].pc # "idle" /\ TaskOf(w) = t

\* C1: a task whose status is completed or failed never changes status
\* again, whatever deliveries and worker interleavings follow.
C1_TerminalIsFinal ==
  [][\A t \in TaskIds :
       tasks[t].status \in Terminal => tasks'[t].status = tasks[t].status]_vars

\* C2: in every reachable state a withdraw transaction of an ML task exists
\* if and only if the task row of the same submission exists.
C2_DebitIffTask ==
  \A r \in Reqs :
    (\E x \in txs : x.req = r /\ x.type = "withdraw" /\ x.description = "ml_task")
      <=> r \in TaskIds

\* C3: the tasks created for an account, times the price, never exceed the
\* funds the account had: its starting balance plus its committed deposits.
C3_NoOverspend ==
  \A u \in Users :
    initial[u] # NoAccount =>
      Cardinality(TasksOf(u)) * PriceCredits <= initial[u] + SumAmounts(DepositsOf(u))

\* C4: the balance of an account equals its starting balance plus the signed
\* amounts of the transactions recorded for it (no update is lost).
C4_BalanceIsLedgerSum ==
  \A u \in Users :
    initial[u] # NoAccount => balance[u] = initial[u] + SumAmounts(TxsOf(u))

\* C5: every balance is >= 0 in every reachable state, and a withdrawal that
\* is about to commit read a balance that covers its amount.
C5_BalanceNonNegative ==
  /\ \A u \in Users : initial[u] # NoAccount => balance[u] >= 0
  /\ \A u \in Users : initial[u] = NoAccount => balance[u] = NoAccount
  /\ \A r \in Reqs :
       reqs[r].pc = "withdraw_commit" =>
         reqs[r].snap # NoAccount /\ reqs[r].snap >= reqs[r].amount /\ reqs[r].amount > 0

\* C5 witness: a withdrawal took the whole balance of an account while a
\* second withdrawal on the same account had passed its checks.
C5_Witness ==
  \E u \in Users :
    /\ balance[u] = 0
    /\ \E x \in txs : x.account = u /\ x.type = "withdraw"
    /\ \E r \in Reqs : reqs[r].pc = "withdraw_commit" /\ reqs[r].user = u

\* C6: a submission that finds the balance below the price, or no account,
\* fails with payment-required and creates no task, appends no transaction,
\* publishes no message and leaves every balance unchanged; a finished
\* request does nothing more.
C6_InsufficientSubmitNoEffect ==
  [][\A r \in Reqs :
       /\ (/\ reqs[r].pc = "idle" /\ reqs'[r].pc # "idle" /\ reqs'[r].kind = "submit"
           /\ catalog
           /\ (balance[reqs'[r].user] = NoAccount \/ balance[reqs'[r].user] < PriceCredits))
          => /\ reqs'[r].pc = "done" /\ reqs'[r].outcome = "payment_required"
             /\ balance' = balance /\ txs' = txs /\ tasks' = tasks /\ queue' = queue
             /\ r \notin DOMAIN tasks'
             /\ ~ \E x \in txs' : x.req = r
             /\ ~ \E m \in queue' : m.task_id = r
       /\ reqs[r].pc = "done" => reqs'[r] = reqs[r]]_vars

\* C6 witness: the scenario of the specification, a refused submission of an
\* account whose balance is 3.
C6_Witness ==
  \E r \in Reqs :
    /\ reqs[r].kind = "submit" /\ reqs[r].outcome = "payment_required"
    /\ balance[reqs[r].user] = 3
    /\ r \notin TaskIds

NonPending == {"processing", "completed", "failed"}

\* C7: a delivery that arrives when the committed status of its task is
\* processing, completed or failed returns at the duplicate check: its
\* handler never starts processing, validation or scoring, writes no task,
\* prediction, balance or transaction, and goes on to acknowledge.
C7_DuplicateDeliveryNoEffect ==
  [][\A w \in Workers :
       (wk[w].pc # "idle" /\ wk[w].seen \in NonPending) =>
         /\ wk[w].pc \in {"lookup", "ack"}
         /\ wk[w].pc = "ack" => wk[w].path = "duplicate"
         /\ wk'[w] # wk[w] =>
              /\ tasks' = tasks /\ predictions' = predictions
              /\ balance' = balance /\ txs' = txs
              /\ wk'[w].pc \in {wk[w].pc, "ack", "idle"}]_vars

\* C7 witness: a redelivered message of a task already completed is about to
\* be acknowledged as a duplicate.
C7_Witness ==
  \E w \in Workers :
    /\ wk[w].pc = "ack" /\ wk[w].path = "duplicate"
    /\ wk[w].seen = "completed"
    /\ Cardinality(PredictionsOf(TaskOf(w))) = 1

\* C8: a task that was submitted, charged and published ends completed or
\* failed: once its message is gone from the broker and no handler runs on
\* it (nothing can act on it any more), its status is terminal.
C8_ChargedTaskReachesTerminal ==
  \A t \in TaskIds :
    (reqs[t].outcome = "ok" /\ ~InBroker(t) /\ ~InHandler(t))
      => tasks[t].status \in Terminal

\* C9: a worker that is about to send basic_ack for a message whose task
\* exists has that task committed as completed or failed.
C9_AckOnlyAfterTerminal ==
  \A w \in Workers :
    (wk[w].pc = "ack" /\ TaskOf(w) \in TaskIds) => tasks[TaskOf(w)].status \in Terminal

\* C10: a failure in a worker's processing is not swallowed: when the
\* processing of a task raised and the worker goes on to acknowledge, the
\* task is failed with a non-empty error message, not pending or processing.
C10_FailureLeavesFailedTask ==
  \A w \in Workers :
    (wk[w].pc = "ack" /\ wk[w].path \in {"handled", "swallowed"}) =>
      (tasks[TaskOf(w)].status = "failed" /\ tasks[TaskOf(w)].error_message # "")

\* C11: when the publish raised, the submission ends with the task failed,
\* an error message recorded and the service-unavailable answer; its task is
\* not left pending with no message in the queue.
C11_PublishFailureMarksFailed ==
  \A r \in Reqs :
    (reqs[r].pc = "done" /\ reqs[r].outcome \in {"unavailable", "error"}) =>
      /\ reqs[r].outcome = "unavailable"
      /\ r \in TaskIds
      /\ tasks[r].status = "failed" /\ tasks[r].error_message # ""
      /\ ~(tasks[r].status = "pending" /\ ~InBroker(r))

\* the ledger rows written for task t
ChargesOf(t) == {x \in txs : x.req = t}

\* C12: a task is charged once, at submission, and never refunded: a step of
\* a worker (completion, validation failure, scorer exception, duplicate,
\* missing task) leaves every balance and the set of transactions unchanged,
\* and every task has exactly one ledger row, the withdrawal of its price.
C12_ChargedOnceNeverRefunded ==
  [][/\ (\E w \in Workers : wk'[w] # wk[w]) => (balance' = balance /\ txs' = txs)
     /\ \A t \in DOMAIN tasks' :
          \E x \in txs' :
            /\ {y \in txs' : y.req = t} = {x}
            /\ x.type = "withdraw" /\ x.amount = 0 - PriceCredits
            /\ x.account = tasks'[t].user_id]_vars

\* C12 witness: the workers completed one task and failed another, and the
\* submitter's balance is still what the submissions left.
C12_Witness ==
  /\ \E t \in TaskIds : tasks[t].status = "completed"
  /\ \E t \in TaskIds : tasks[t].status = "failed" /\ tasks[t].error_message = "internal"
  /\ \A u \in Users :
       initial[u] # NoAccount =>
         balance[u] = initial[u] - PriceCredits * Cardinality(TasksOf(u))
  /\ \A t \in TaskIds : Cardinality(ChargesOf(t)) = 1

\* C13: the number of prediction records created for a task is 1 if the task
\* is completed and 0 otherwise, in every reachable state.
C13_OnePredictionPerCompletedTask ==
  \A t \in TaskIds :
    Cardinality(PredictionsOf(t)) = IF tasks[t].status = "completed" THEN 1 ELSE 0

\* C14: deposit_credits and withdraw_credits called with amount <= 0 end with
\* the invalid-amount error at once, whether or not the account exists; no
\* balance changes and no transaction is appended, then or later.
C14_InvalidAmountNoEffect ==
  [][/\ \A r \in Reqs :
          (reqs[r].pc = "idle" /\ reqs'[r].pc # "idle") =>
            \A a \in Amounts :
              (/\ a <= 0
               /\ \/ deposit_credits(r, reqs'[r].user, a)
                  \/ withdraw_credits(r, reqs'[r].user, a)) =>
                /\ reqs'[r].pc = "done" /\ reqs'[r].outcome = "invalid_amount"
                /\ balance' = balance /\ txs' = txs
     /\ \A r \in Reqs :
          reqs[r].outcome = "invalid_amount" =>
            /\ reqs'[r] = reqs[r]
            /\ ~ \E x \in txs' : x.req = r]_vars

\* C14 witness: a deposit and a withdrawal were both refused for their
\* amount, one of them on a user without account; nothing was written.
C14_Witness ==
  /\ \E r \in Reqs : reqs[r].kind = "deposit" /\ reqs[r].outcome = "invalid_amount"
                      /\ balance[reqs[r].user] = NoAccount
  /\ \E r \in Reqs : reqs[r].kind = "withdraw" /\ reqs[r].outcome = "invalid_amount"
                      /\ balance[reqs[r].user] = PriceCredits
  /\ txs = {} /\ balance = initial

\* C15: withdraw_credits with amount > 0 on an existing account fails with
\* insufficient funds exactly when the balance it reads is below the amount;
\* then no balance changes and no transaction is appended, then or later.  A
\* withdrawal of exactly the balance it read passes and commits balance 0.
C15_InsufficientFundsIffBelow ==
  [][/\ \A r \in Reqs :
          (reqs[r].pc = "idle" /\ reqs'[r].pc # "idle") =>
            \A a \in Amounts :
              LET u == reqs'[r].user IN
              (/\ a > 0 /\ reqs'[r].kind = "withdraw" /\ balance[u] # NoAccount
               /\ withdraw_credits(r, u, a)) =>
                /\ (reqs'[r].outcome = "insufficient_funds") <=> (balance[u] < a)
                /\ balance[u] < a => reqs'[r].pc = "done"
                /\ balance[u] >= a =>
                     reqs'[r].pc = "withdraw_commit" /\ reqs'[r].snap = balance[u]
                /\ balance' = balance /\ txs' = txs
     /\ \A r \in Reqs :
          (reqs[r].kind = "withdraw" /\ reqs[r].pc = "withdraw_commit"
             /\ reqs[r].snap = reqs[r].amount /\ reqs'[r].pc = "done" /\ withdraw_commit(r))
            => balance'[reqs[r].user] = 0 /\ reqs'[r].outcome = "ok"
     /\ \A r \in Reqs :
          reqs[r].outcome = "insufficient_funds" =>
            /\ reqs'[r] = reqs[r]
            /\ ~ \E x \in txs' : x.req = r]_vars

\* C15 witness: one withdrawal took exactly the whole balance and left 0, a
\* second one on the same account was refused for insufficient funds.
C15_Witness ==
  \E r1, r2 \in Reqs :
    /\ reqs[r1].kind = "withdraw" /\ reqs[r1].outcome = "ok"
    /\ reqs[r2].kind = "withdraw" /\ reqs[r2].outcome = "insufficient_funds"
    /\ reqs[r2].user = reqs[r1].user
    /\ initial[reqs[r1].user] = PriceCredits /\ balance[reqs[r1].user] = 0
    /\ Cardinality(txs) = 1

\* C16: the commit of a successful deposit_credits or withdraw_credits call
\* appends exactly one transaction (+a of type deposit, -a of type withdraw)
\* for the account and changes that account's balance by the same signed
\* amount; every other balance is unchanged.
C16_OneEntryOneBalance ==
  [][\A r \in Reqs :
       LET q == reqs[r]
           signed == IF q.pc = "deposit_commit" THEN q.amount ELSE 0 - q.amount
           ty == IF q.pc = "deposit_commit" THEN "deposit" ELSE "withdraw"
       IN (deposit_commit(r) \/ withdraw_commit(r)) =>
            /\ \E x \in txs' :
                  /\ x \notin txs /\ txs' = txs \cup {x}
                  /\ x.account = q.user /\ x.amount = signed /\ x.type = ty
            /\ balance' = [balance EXCEPT ![q.user] = @ + signed]]_vars

\* C17: a status request for a task id that does not exist, or that belongs
\* to another user, gets the same not-found response, which carries nothing
\* of any task; only the owner gets the task.
C17_StatusOnlyToOwner ==
  answer # NoAnswer =>
    LET u == answer.caller
        t == answer.task_id
        owned == t \in TaskIds /\ tasks[t].user_id = u
    IN /\ ~owned => answer.resp = NotFound
       /\ owned => answer.resp.code = 200 /\ answer.resp.task_id = t

\* C17 witness: a user who owns no task asked for a completed task of user 1
\* and was told not-found.
C17_Witness ==
  /\ answer # NoAnswer
  /\ answer.task_id \in TaskIds
  /\ tasks[answer.task_id].status = "completed"
  /\ tasks[answer.task_id].user_id # answer.caller
  /\ answer.resp = NotFound

\* C18: the response of a status request to the owner carries the status of
\* the task; it contains the result and the original input exactly when that
\* status is completed, the error message exactly when it is failed, and
\* neither for pending and processing.
C18_ProjectionByStatus ==
  [][LET u == answer'.caller
         t == answer'.task_id
     IN (/\ wk' = wk /\ tasks' = tasks
         /\ t \in TaskIds /\ tasks[t].user_id = u
         /\ get_task_status(u, t)) =>
         LET r == answer'.resp
             task == tasks[t]
         IN /\ r.code = 200 /\ r.status = task.status
            /\ ("prediction" \in DOMAIN r) <=> (task.status = "completed")
            /\ ("input_data" \in DOMAIN r) <=> (task.status = "completed")
            /\ ("error_message" \in DOMAIN r) <=> (task.status = "failed")
            /\ task.status = "completed" =>
                 r.prediction = task.prediction /\ r.input_data = task.input_data
            /\ task.status = "failed" =>
                 r.error_message = task.error_message /\ r.error_message # ""]_vars

\* C18 witness: the owner asked for a completed task and got its result and
\* input, while another of their tasks is failed.
C18_Witness ==
  /\ answer.caller = 1 /\ answer.resp.code = 200
  /\ answer.resp.status = "completed"
  /\ answer.resp.prediction = calculate_prediction(GoodPayload)
  /\ answer.resp.input_data = "good"
  /\ \E t \in TaskIds : tasks[t].status = "failed"

\* the place of a status in the order pending, processing, completed/failed
StatusRank(st) == CASE st = "pending" -> 0 [] st = "processing" -> 1 [] OTHER -> 2

\* C19: the committed status of a task only moves forward: no step takes a
\* task from processing to pending, or from completed or failed to pending
\* or processing.
C19_StatusMovesForward ==
  [][\A t \in TaskIds :
       StatusRank(tasks'[t].status) >= StatusRank(tasks[t].status)]_vars

\* the messages the broker holds: ready, or delivered and unacknowledged
BrokerMsgs == queue \cup ({unacked[w] : w \in Workers} \ {NoMsg})

\* C20 as stated: whenever the handling of a delivered message raised, the
\* worker does not acknowledge the message; it goes back to the queue.
C20_AnyExceptionRequeues ==
  [][\A w \in Workers :
       (/\ wk[w].pc = "ack" /\ wk[w].path \in {"handled", "swallowed"}
        /\ unacked[w] # NoMsg /\ wk'[w].pc = "idle")
         => unacked[w] \in queue']_vars

\* C20 amended: an error that leaves process_ml_task is answered with a
\* negative acknowledgment and the message is ready in the queue again; an
\* exception inside process_ml_task's try block ends in its except branch,
\* after which callback goes on to acknowledge; an acknowledged message is
\* not requeued, and a message leaves the broker only by an acknowledgment.
C20_NackRequeuesAckRemoves ==
  [][/\ \A w \in Workers :
          (wk'[w].path = "nacked" /\ wk[w].pc # "idle" /\ callback_nack(w)) =>
            unacked[w] \in queue' /\ unacked'[w] = NoMsg /\ wk'[w].pc = "idle"
     /\ \A w \in Workers :
          (wk[w].pc = "handler" /\ process_handler(w)) =>
            wk'[w].pc = "ack" /\ queue' = queue /\ unacked' = unacked
     /\ \A w \in Workers :
          (wk[w].pc = "ack" /\ unacked[w] # NoMsg /\ callback_ack(w)) =>
            unacked[w] \notin BrokerMsgs'
     /\ \A m \in BrokerMsgs :
          m \notin BrokerMsgs' =>
            \E w \in Workers : unacked[w] = m /\ wk[w].pc = "ack" /\ callback_ack(w)]_vars

\* C20 witness: a worker completed a task, an error left process_ml_task
\* afterwards, and the rejected message is ready in the queue again.
C20_Witness ==
  \E w \in Workers, m \in queue :
    /\ wk[w].pc = "idle" /\ wk[w].path = "nacked"
    /\ tasks[m.task_id].status = "completed"
    /\ \A v \in Workers : unacked[v] # m

\* C21: a handler whose message references a task id that has no row returns
\* at the lookup: it never starts processing, validation or scoring, writes
\* no task, prediction, balance or transaction, and goes on to acknowledge;
\* the acknowledgment takes the message out of the broker, so it is not
\* delivered again.
C21_MissingTaskAcked ==
  [][\A w \in Workers :
       (wk[w].pc # "idle" /\ TaskOf(w) \notin TaskIds) =>
         /\ wk[w].pc \in {"lookup", "ack"}
         /\ wk[w].pc = "ack" => wk[w].path = "missing"
         /\ wk'[w] # wk[w] =>
              /\ tasks' = tasks /\ predictions' = predictions
              /\ balance' = balance /\ txs' = txs
              /\ wk'[w].pc \in {wk[w].pc, "ack", "idle"}
         /\ (wk[w].pc = "lookup" /\ wk'[w].pc # "lookup" /\ faults' = faults) =>
              wk'[w].pc = "ack" /\ wk'[w].path = "missing"
         /\ (wk[w].pc = "ack" /\ wk'[w].pc = "idle" /\ faults' = faults) =>
              /\ callback_ack(w)
              /\ unacked[w] # NoMsg => unacked[w] \notin BrokerMsgs']_vars

\* C21 witness: a handler found no row for the last message of the backlog
\* and is about to acknowledge it, its delivery still unacknowledged; no row
\* was written for it.
C21_Witness ==
  \E w \in Workers :
    /\ wk[w].pc = "ack" /\ wk[w].path = "missing" /\ wk[w].seen = "none"
    /\ unacked[w].task_id = NumReqs
    /\ NumReqs \notin TaskIds

\* C22: an exception raised by the scorer is caught for its task: when the
\* except branch ends and the worker goes on to acknowledge, the task is
\* failed with an error message, and no prediction record was inserted.
C22_ScorerExceptionMarksFailed ==
  [][\A w \in Workers :
       (wk[w].pc = "handler" /\ wk[w].path = "scorer" /\ wk'[w].pc = "ack") =>
         /\ tasks'[TaskOf(w)].status = "failed"
         /\ tasks'[TaskOf(w)].error_message # ""
         /\ predictions' = predictions]_vars

\* the stored payload of task t fails validate_input_data
InvalidPayload(t) == validate_input_data(Payload(tasks[t].input_data)) # ""

\* C23: when a handler reaches validation with a stored payload that fails
\* it, the handler commits failed, an error message naming the violated
\* field and the completed timestamp, inserts no prediction record, changes
\* no balance and no transaction, and goes on to acknowledge, which removes
\* the message; such a task is never scored: no step completes it, gives it
\* a result or a prediction record, or has the scorer raise for it.
C23_InvalidPayloadFails ==
  [][/\ \A w \in Workers :
          (/\ wk[w].pc = "validate" /\ wk'[w].pc # "validate" /\ faults' = faults
           /\ InvalidPayload(TaskOf(w))) =>
            LET t == TaskOf(w) IN
            /\ tasks'[t].status = "failed" /\ tasks'[t].completed_at
            /\ tasks'[t].error_message =
                  "validation:" \o validate_input_data(Payload(tasks[t].input_data))
            /\ tasks[t].input_data = "nan_ratio" =>
                  tasks'[t].error_message = "validation:payments_ratio"
            /\ predictions' = predictions /\ balance' = balance /\ txs' = txs
            /\ wk'[w].pc = "ack" /\ wk'[w].path = "rejected"
     /\ \A w \in Workers :
          (/\ wk[w].pc = "ack" /\ wk[w].path = "rejected" /\ wk'[w].pc = "idle"
           /\ faults' = faults) =>
            /\ callback_ack(w)
            /\ unacked[w] # NoMsg => unacked[w] \notin BrokerMsgs'
     /\ \A t \in TaskIds :
          (tasks'[t] # tasks[t] /\ (tasks'[t].status = "completed" \/ tasks'[t].prediction # -1))
            => ~InvalidPayload(t)
     /\ \A x \in predictions' : x \notin predictions => ~InvalidPayload(x.task)
     /\ \A w \in Workers :
          (wk'[w].path # wk[w].path /\ wk'[w].path \in {"scorer", "completed"})
            => ~InvalidPayload(TaskOf(w))]_vars

\* C23 witness: a task whose stored ratio is NaN was failed at validation
\* with the message naming payments_ratio; its handler is about to
\* acknowledge, no prediction record exists and the debit stands.
C23_Witness ==
  \E w \in Workers :
    /\ wk[w].pc = "ack" /\ wk[w].path = "rejected"
    /\ tasks[TaskOf(w)].input_data = "nan_ratio"
    /\ tasks[TaskOf(w)].status = "failed"
    /\ tasks[TaskOf(w)].error_message = "validation:payments_ratio"
    /\ PredictionsOf(TaskOf(w)) = {}
    /\ balance[1] = 0 /\ Cardinality(ChargesOf(TaskOf(w))) = 1

\* C24: every task in status failed has a non-empty error message and a
\* completed timestamp, whichever path marked it failed.
C24_FailedHasErrorAndTimestamp ==
  \A t \in TaskIds :
    tasks[t].status = "failed" => (tasks[t].error_message # "" /\ tasks[t].completed_at)

\* C25: the step in which a synchronous predict succeeds lowers the balance
\* of its account by exactly the price, appends exactly one withdraw
\* transaction of that amount, and returns a prediction with credits_charged
\* equal to the price; a request that did not commit the debit carries no
\* response.
C25_SyncPredictDebitsOnce ==
  [][\A r \in Reqs :
       /\ (reqs[r].pc = "sync_commit" /\ reqs'[r].pc = "done" /\ reqs'[r].outcome = "ok") =>
            LET u == reqs[r].user IN
            /\ balance' = [balance EXCEPT ![u] = @ - PriceCredits]
            /\ \E x \in txs' :
                  /\ x \notin txs /\ txs' = txs \cup {x}
                  /\ x.account = u /\ x.type = "withdraw" /\ x.amount = 0 - PriceCredits
            /\ reqs'[r].resp.prediction = calculate_prediction_main(GoodPayload)
            /\ reqs'[r].resp.credits_charged = PriceCredits /\ PriceCredits > 0
       /\ (reqs'[r].kind = "sync" /\ "resp" \in DOMAIN reqs'[r]) =>
            \E x \in txs' : x.req = r /\ x.type = "withdraw"]_vars

\* the terms of the reference heuristic, in ten-thousandths, for a vector
\* whose values are in hundredths
DebtTerm(d) ==
  IF d.total_debt.v > 0 /\ d.total_debt.v <= 100000 * 100 THEN 2000
  ELSE IF d.total_debt.v > 100000 * 100 THEN 0 - 1000 ELSE 0
OverdueTerm(d) == IF d.days_overdue.v > 90 * 100 THEN 1000 ELSE 0
PersonTerm(d) == IF d.is_physical_person = Val("bool", 100) THEN 500 ELSE 0
Clamp01(x) == IF x < 0 THEN 0 ELSE IF x > 10000 THEN 10000 ELSE x
ReferenceScore(d) ==
  Clamp01(5000 + DebtTerm(d) + OverdueTerm(d) + PersonTerm(d) - d.payments_ratio.v * 20)

\* C26: for every valid feature vector both scorers return the reference
\* heuristic: 0.5, plus 0.2 for a debt in (0, 100000] or minus 0.1 for a debt
\* above 100000, plus 0.1 for more than 90 days overdue, plus 0.05 for a
\* physical person, minus ratio * 0.2, clamped to [0, 1]; for the vector of
\* the API test they return 0.79.
C26_ScorerIsReferenceHeuristic ==
  call.fn \in {"calculate_prediction", "calculate_prediction_main"} =>
    /\ call.result = ReferenceScore(call.arg)
    /\ call.result >= 0 /\ call.result <= 10000
    /\ call.arg = GoodPayload => call.result = 7900

\* C26 witness: the scorer of the worker returned 0.79 for the vector of the
\* API test.
C26_Witness ==
  /\ call.fn = "calculate_prediction"
  /\ call.arg = GoodPayload
  /\ call.result = 7900

\* C27: every completed task has a result in [0, 1], a started and a
\* completed timestamp, and no error message.
C27_CompletedTaskIsWellFormed ==
  \A t \in TaskIds :
    tasks[t].status = "completed" =>
      /\ tasks[t].prediction >= 0 /\ tasks[t].prediction <= 10000
      /\ tasks[t].started_at /\ tasks[t].completed_at
      /\ tasks[t].error_message = ""

\* C28: a submission made while the scoring model is not in the catalog ends
\* at once with the model-not-found error, whatever the balance: no balance
\* changes, no transaction is appended, no task is created and no message is
\* published, then or later; without the catalog row no task, no message
\* and no task debit ever exist.
C28_NoModelNoCharge ==
  [][/\ \A r \in Reqs :
          (/\ reqs[r].pc = "idle" /\ reqs'[r].pc # "idle" /\ reqs'[r].kind = "submit"
           /\ ~catalog) =>
            /\ reqs'[r].pc = "done" /\ reqs'[r].outcome = "model_not_found"
            /\ balance' = balance /\ txs' = txs /\ tasks' = tasks /\ queue' = queue
     /\ \A r \in Reqs :
          reqs[r].outcome = "model_not_found" =>
            /\ reqs'[r] = reqs[r]
            /\ r \notin DOMAIN tasks'
            /\ ~ \E x \in txs' : x.req = r
            /\ ~ \E m \in queue' : m.task_id = r
     /\ ~catalog =>
          /\ tasks' = <<>> /\ queue' = {}
          /\ ~ \E x \in txs' : x.description = "ml_task"]_vars

\* C28 witness: a submission of a user whose balance covers the price was
\* refused for the missing model; the balance is untouched and nothing was
\* written.
C28_Witness ==
  \E r \in Reqs :
    /\ reqs[r].kind = "submit" /\ reqs[r].outcome = "model_not_found"
    /\ balance[reqs[r].user] = PriceCredits
    /\ txs = {} /\ tasks = <<>> /\ queue = {}

\* C29: ledger transactions are append-only: every step keeps every existing
\* transaction as it is (same account, amount and type), a step adds at most
\* one transaction, and a call writes its transaction only once.
C29_TransactionsAppendOnly ==
  [][txs' # txs =>
       /\ txs \subseteq txs'
       /\ Cardinality(txs' \ txs) = 1
       /\ \A x \in txs : \A y \in txs' :
            y.req = x.req =>
              (y.account = x.account /\ y.amount = x.amount /\ y.type = x.type)]_vars

\* C29 witness: an account has a deposit and, written after it, a
\* withdrawal; both rows are in the ledger as they were written.
C29_Witness ==
  \E x, y \in txs :
    /\ x.account = y.account /\ x.req < y.req
    /\ x.type = "deposit" /\ x.amount = 5
    /\ y.type = "withdraw" /\ y.amount = 0 - 5
    /\ Cardinality(txs) = 2

C31_OneUnackedPerWorker ==
  [][\A w \in Workers :
       /\ (unacked'[w] # unacked[w] /\ unacked'[w] # NoMsg) =>
             /\ unacked[w] = NoMsg /\ wk[w].pc = "idle"
             /\ wk'[w].pc = "lookup" /\ wk'[w].msg = unacked'[w]
       /\ (wk[w].pc # "idle" /\ wk'[w].msg # wk[w].msg) =>
             (wk'[w].pc = "idle" /\ unacked'[w] = NoMsg)
       /\ unacked[w] # NoMsg => (wk[w].pc # "idle" /\ wk[w].msg = unacked[w])]_vars

\* C31 witness: a worker at its acknowledgment still holds its message
\* while another message waits ready in the queue, undelivered to it.
C31_Witness ==
  \E w \in Workers :
    /\ wk[w].pc = "ack" /\ unacked[w] # NoMsg /\ wk[w].msg = unacked[w]
    /\ \E m \in queue : m # unacked[w]

\* C32: while no connection has been opened, the worker's startup loop
\* retries after each connection error with a sleep of retry_delay (2 s)
\* before each of the attempts 2..30, the 30th connection error ends the
\* process with that error (it neither sleeps again nor returns normally),
\* and the loop always ends: eventually a connection is opened or the
\* process has exited.
C32_StartupLoopTerminates ==
  /\ [](main.connected = 0 =>
          /\ main.errors <= max_retries
          /\ main.pc # "returned"
          /\ main.pc = "connect" => main.errors = main.attempt
          /\ main.pc = "sleep" =>
               /\ main.delay = retry_delay
               /\ main.attempt < max_retries - 1
               /\ main.errors = main.attempt + 1
          /\ main.pc = "failed" <=> main.errors = max_retries)
  /\ <>(main.connected > 0 \/ main.pc \in MainExited)

\* C32 witness: the broker was never reachable: the process exited with the
\* connection error of its 30th attempt without having opened a connection.
C32_Witness ==
  /\ main.pc = "failed" /\ main.connected = 0
  /\ main.attempt = max_retries - 1 /\ main.errors = max_retries

\* C38: the attempt counter of a worker process never goes back: every new
\* connection attempt, after a sleep or after start_consuming returned,
\* takes the next value of the loop variable, so a process opens and loses
\* at most 30 connections in its life, and a connection error in the 30th
\* attempt ends the process whatever succeeded before.
C38_AttemptCounterNeverReset ==
  [][/\ main'.attempt >= main.attempt
     /\ main'.attempt <= max_retries - 1
     /\ (main'.pc = "connect" /\ main.pc # "connect") => main'.attempt = main.attempt + 1
     /\ main'.connected <= main'.attempt + 1
     /\ main'.errors <= main'.attempt + 1
     /\ (main'.errors > main.errors /\ main.attempt = max_retries - 1) => main'.pc = "failed"
     /\ main'.errors = max_retries => main'.pc = "failed"]_vars

\* C38 witness: a process that opened connections and lost them exited with
\* the connection error of its 30th attempt.
C38_Witness ==
  /\ main.pc = "failed" /\ main.attempt = max_retries - 1
  /\ main.connected >= 2 /\ main.errors < max_retries

\* the validation rule as stated: the five keys present, total_debt a number
\* above 0, penalty_amount a number of at least 0, days_overdue an integer of
\* at least 0, payments_ratio a number in [0, 1], is_physical_person a boolean
StatedNumber(x) == x.t \in {"int", "float"}
StatedValid(d) ==
  /\ d # NullPayload
  /\ \A f \in Fields : d[f] # Missing
  /\ StatedNumber(d.total_debt) /\ d.total_debt.v > 0
  /\ StatedNumber(d.penalty_amount) /\ d.penalty_amount.v >= 0
  /\ d.days_overdue.t = "int" /\ d.days_overdue.v >= 0
  /\ StatedNumber(d.payments_ratio) /\ d.payments_ratio.v >= 0 /\ d.payments_ratio.v <= 100
  /\ d.is_physical_person.t = "bool"

\* C33: validation accepts a payload exactly when the five fields are
\* present and within the stated types and ranges, and returns a rejection
\* without raising for every other payload.
C33_ValidationAcceptsExactlyDomain ==
  call.fn = "validate_input_data" =>
    /\ ~call.raised
    /\ (call.result = "") <=> StatedValid(call.arg)

\* C34: with no consumer running, the queue holds what was published: for
\* every submission that returned success it holds exactly one message that
\* references the submission's task, and that message's task_id, user_id,
\* model_id and input_data are the id, owner, model and stored payload of
\* the task; a submission that has not returned success, one that failed
\* before it created a task included, has no message.
C34_SuccessPublishesOneMatchingMessage ==
  /\ \A x \in queue :
        /\ x.task_id \in TaskIds
        /\ reqs[x.task_id].kind = "submit" /\ reqs[x.task_id].outcome = "ok"
        /\ x = [task_id |-> x.task_id, user_id |-> tasks[x.task_id].user_id,
                model_id |-> tasks[x.task_id].model_id,
                input_data |-> tasks[x.task_id].input_data]
        /\ tasks[x.task_id].user_id = reqs[x.task_id].user
  /\ \A r \in Reqs :
        (reqs[r].kind = "submit" /\ reqs[r].outcome = "ok") =>
          \E x \in queue : x.task_id = r

\* C34 witness: a submission of the second user returned success and its
\* one message waits in the queue with the task's owner and payload, while
\* another submission was refused for its balance and left no task.
C34_Witness ==
  \E r, s \in Reqs :
    /\ reqs[r].kind = "submit" /\ reqs[r].outcome = "ok" /\ reqs[r].user = NumUsers
    /\ Cardinality({x \in queue : x.task_id = r}) = 1
    /\ \E x \in queue :
         /\ x.task_id = r /\ x.user_id = NumUsers /\ x.model_id = ModelId
         /\ x.input_data = "nan_ratio" /\ tasks[r].input_data = "nan_ratio"
    /\ reqs[s].kind = "submit" /\ reqs[s].outcome = "payment_required"
    /\ s \notin TaskIds /\ \A x \in queue : x.task_id # s

\* C35: every message placed on the queue is eventually acknowledged and
\* removed: under fair delivery the broker ends up holding no message,
\* neither ready nor unacknowledged, a message whose body cannot be parsed
\* included.
C35_EveryMessageEventuallyAcked == <>[](BrokerMsgs = {})

\* C36: what a handler writes is determined by the task row that the
\* message's task_id names, whatever else the body says: a completed task
\* gets the score of the row's payload, a rejected one the error of the
\* row's payload, the prediction record copies the row's owner, model and
\* payload, and no step changes the row's owner, model or payload; so two
\* deliveries that agree in the task_id alone end alike.
C36_OutcomeDependsOnRowOnly ==
  [][/\ \A t \in TaskIds :
          tasks'[t] # tasks[t] =>
            LET d == Payload(tasks[t].input_data) IN
            /\ tasks'[t].user_id = tasks[t].user_id
            /\ tasks'[t].model_id = tasks[t].model_id
            /\ tasks'[t].input_data = tasks[t].input_data
            /\ (tasks'[t].status = "completed" /\ tasks[t].status # "completed") =>
                 (PreScoreError(d) = "" /\ tasks'[t].prediction = calculate_prediction(d))
            /\ (tasks'[t].status = "failed" /\ tasks[t].status # "failed") =>
                 tasks'[t].error_message \in {"internal", PreScoreError(d)}
     /\ \A x \in predictions' \ predictions :
          /\ x.user_id = tasks[x.task].user_id
          /\ x.model_id = tasks[x.task].model_id
          /\ x.input_data = tasks[x.task].input_data
          /\ x.prediction = calculate_prediction(Payload(tasks[x.task].input_data))]_vars

\* C36 witness: a handler completed the task of a valid row from a body that
\* named another user, another model and the NaN payload; the task carries
\* the score of the row's payload and its record the row's owner.
C36_Witness ==
  \E w \in Workers :
    /\ wk[w].pc = "ack" /\ wk[w].path = "completed"
    /\ wk[w].msg = ForeignBody(TaskOf(w), "good")
    /\ tasks[TaskOf(w)].input_data = "good"
    /\ tasks[TaskOf(w)].status = "completed"
    /\ tasks[TaskOf(w)].prediction = calculate_prediction(GoodPayload)
    /\ \E x \in predictions : x.task = TaskOf(w) /\ x.user_id = 1 /\ x.input_data = "good"

\* C37: once the publisher's channel was opened and the broker connection
\* is lost, the publisher stays as it is, nothing more is published, and
\* every submission with sufficient balance that reached its publish is
\* debited and ends with its task failed.
C37_LostPublisherFailsEverySubmission ==
  publisher = "lost" =>
    \A r \in Reqs :
      (/\ reqs[r].kind = "submit" /\ reqs[r].pc = "done" /\ r \in TaskIds
       /\ reqs[r].outcome \notin {"ok", "aborted"}) =>
        /\ \E x \in txs : x.req = r /\ x.type = "withdraw" /\ x.amount = 0 - PriceCredits
        /\ tasks[r].status = "failed"
        /\ \A m \in queue : m.task_id # r

\* C39: a top-up request credits its user at most once: the first approve
\* sets approved_by and raises the balance by the request's amount, every
\* later approve raises an error and leaves the balance and the approval
\* fields as they are, and the balance is never negative.
C39_ApproveCreditsOnce ==
  [][/\ domain_model'.balance >= 0
     /\ (\E admin \in Admins : TopUpRequest_approve(admin)) =>
          IF domain_model.approved_by = NoAdmin
          THEN /\ domain_model'.approved_by # NoAdmin
               /\ domain_model'.balance = domain_model.balance + domain_model.amount
          ELSE /\ domain_model'.raised # ""
               /\ domain_model'.balance = domain_model.balance
               /\ domain_model'.approved_by = domain_model.approved_by
               /\ domain_model'.approved_at = domain_model.approved_at]_vars

====
